---------------------------- MODULE Spec2Model ----------------------------
(***************************************************************************)
(* A model of numero (sebastianzander/numero): the bidirectional converter *)
(* between decimal numbers written in digits and English numerals.         *)
(*                                                                         *)
(* Strings are sequences of one-character strings, so that every regular   *)
(* expression, substring and lookup of the source acts on characters as it *)
(* does in the C++ code.  A call that throws is modelled by a result       *)
(* record whose err field names the exception; err = "" means it returned. *)
(***************************************************************************)
EXTENDS Integers, Sequences, FiniteSets, TLC

VARIABLES
    conversion_options,   \* converter_c::_conversion_options
    number_patterns,      \* converter_c::_number_patterns: key -> compiled pattern
    call,                 \* the last call on the converter: operation, input, outcome
    prev                  \* the call before it

vars == <<conversion_options, number_patterns, call, prev>>

-----------------------------------------------------------------------------
(* Characters and strings *)

DigitChars == {"0","1","2","3","4","5","6","7","8","9"}

LowerChars ==
    {"a","b","c","d","e","f","g","h","i","j","k","l","m",
     "n","o","p","q","r","s","t","u","v","w","x","y","z"}

(* std::isspace in the "C" locale *)
SpaceChars == {" ", "\t", "\n", "\r", "\f"}

DigitValue(c) ==
    CASE c = "0" -> 0 [] c = "1" -> 1 [] c = "2" -> 2 [] c = "3" -> 3
      [] c = "4" -> 4 [] c = "5" -> 5 [] c = "6" -> 6 [] c = "7" -> 7
      [] c = "8" -> 8 [] c = "9" -> 9

Min(S) == CHOOSE x \in S : \A y \in S : x <= y

Max(S) == 0 - Min({ 0 - x : x \in S })

AllIn(s, i, j, C) == \A k \in i..j : s[k] \in C

AllDigits(s) == AllIn(s, 1, Len(s), DigitChars)

(* std::string_view::substr(0, n) == p *)
StartsWith(s, p) == Len(p) <= Len(s) /\ SubSeq(s, 1, Len(p)) = p

EndsWith(s, p) == Len(p) <= Len(s) /\ SubSeq(s, Len(s) - Len(p) + 1, Len(s)) = p

Repeat(c, n) == [k \in 1..n |-> c]

(* p occurs in s at position i. *)
Occurs(s, p, i) == i >= 1 /\ i + Len(p) - 1 <= Len(s) /\ SubSeq(s, i, i + Len(p) - 1) = p

(* rtrim: erase everything after the last character that is not a space. *)
RECURSIVE rtrim(_)
rtrim(s) ==
    IF s # <<>> /\ s[Len(s)] \in SpaceChars THEN rtrim(SubSeq(s, 1, Len(s) - 1)) ELSE s

W_illion == <<"i","l","l","i","o","n">>
W_illiard == <<"i","l","l","i","a","r","d">>
W_negative == <<"n","e","g","a","t","i","v","e">>
W_minus == <<"m","i","n","u","s">>
W_point == <<"p","o","i","n","t">>
W_a == <<"a">>
W_thousand == <<"t","h","o","u","s","a","n","d">>
W_hundred == <<"h","u","n","d","r","e","d">>

-----------------------------------------------------------------------------
(* Vocabulary tables *)

(* Latin prefixes, entry form <<value, prefix>> (bimap left view, ordered by value). *)
value_to_prefix ==
  << <<1, <<"u","n">>>>,
     <<2, <<"d","u","o">>>>,
     <<3, <<"t","r","e">>>>,
     <<4, <<"q","u","a","t","t","u","o","r">>>>,
     <<5, <<"q","u","i","n">>>>,
     <<6, <<"s","e","x">>>>,
     <<7, <<"s","e","p","t","e","n">>>>,
     <<8, <<"o","c","t","o">>>>,
     <<9, <<"n","o","v","e","m">>>> >>

(* The right view of value_to_prefix: the same pairs ordered by the prefix string,
   which is the order find_prefix walks them in. *)
value_to_prefix_right ==
  << <<2, <<"d","u","o">>>>,
     <<9, <<"n","o","v","e","m">>>>,
     <<8, <<"o","c","t","o">>>>,
     <<4, <<"q","u","a","t","t","u","o","r">>>>,
     <<5, <<"q","u","i","n">>>>,
     <<7, <<"s","e","p","t","e","n">>>>,
     <<6, <<"s","e","x">>>>,
     <<3, <<"t","r","e">>>>,
     <<1, <<"u","n">>>> >>

(* Latin roots, entry form <<factor, root>>, stored without "illion" / "illiard". *)
factor_to_root ==
  << <<1, <<"m">>>>,
     <<2, <<"b">>>>,
     <<3, <<"t","r">>>>,
     <<4, <<"q","u","a","d","r">>>>,
     <<5, <<"q","u","i","n","t">>>>,
     <<6, <<"s","e","x","t">>>>,
     <<7, <<"s","e","p","t">>>>,
     <<8, <<"o","c","t">>>>,
     <<9, <<"n","o","n">>>>,
     <<10, <<"d","e","c">>>>,
     <<20, <<"v","i","g","i","n","t">>>>,
     <<30, <<"t","r","i","g","i","n","t">>>>,
     <<40, <<"q","u","a","d","r","a","g","i","n","t">>>>,
     <<50, <<"q","u","i","n","q","u","a","g","i","n","t">>>>,
     <<60, <<"s","e","x","a","g","i","n","t">>>>,
     <<70, <<"s","e","p","t","u","a","g","i","n","t">>>>,
     <<80, <<"o","c","t","o","g","i","n","t">>>>,
     <<90, <<"n","o","n","a","g","i","n","t">>>>,
     <<100, <<"c","e","n","t">>>> >>

(* The base numerals without the terms for 11 to 19. *)
value_to_term_without_teens ==
  << <<<<"0">>, <<"z","e","r","o">>>>,
     <<<<"1">>, <<"o","n","e">>>>,
     <<<<"2">>, <<"t","w","o">>>>,
     <<<<"3">>, <<"t","h","r","e","e">>>>,
     <<<<"4">>, <<"f","o","u","r">>>>,
     <<<<"5">>, <<"f","i","v","e">>>>,
     <<<<"6">>, <<"s","i","x">>>>,
     <<<<"7">>, <<"s","e","v","e","n">>>>,
     <<<<"8">>, <<"e","i","g","h","t">>>>,
     <<<<"9">>, <<"n","i","n","e">>>>,
     <<<<"1","0">>, <<"t","e","n">>>>,
     <<<<"2","0">>, <<"t","w","e","n","t","y">>>>,
     <<<<"3","0">>, <<"t","h","i","r","t","y">>>>,
     <<<<"4","0">>, <<"f","o","u","r","t","y">>>>,
     <<<<"5","0">>, <<"f","i","f","t","y">>>>,
     <<<<"6","0">>, <<"s","i","x","t","y">>>>,
     <<<<"7","0">>, <<"s","e","v","e","n","t","y">>>>,
     <<<<"8","0">>, <<"e","i","g","h","t","y">>>>,
     <<<<"9","0">>, <<"n","i","n","e","t","y">>>> >>

(* English base numerals, entry form <<value string, term>>. *)
value_to_term ==
  << <<<<"0">>, <<"z","e","r","o">>>>,
     <<<<"1">>, <<"o","n","e">>>>,
     <<<<"2">>, <<"t","w","o">>>>,
     <<<<"3">>, <<"t","h","r","e","e">>>>,
     <<<<"4">>, <<"f","o","u","r">>>>,
     <<<<"5">>, <<"f","i","v","e">>>>,
     <<<<"6">>, <<"s","i","x">>>>,
     <<<<"7">>, <<"s","e","v","e","n">>>>,
     <<<<"8">>, <<"e","i","g","h","t">>>>,
     <<<<"9">>, <<"n","i","n","e">>>>,
     <<<<"1","0">>, <<"t","e","n">>>>,
     <<<<"1","1">>, <<"e","l","e","v","e","n">>>>,
     <<<<"1","2">>, <<"t","w","e","l","v","e">>>>,
     <<<<"1","3">>, <<"t","h","i","r","t","e","e","n">>>>,
     <<<<"1","4">>, <<"f","o","u","r","t","e","e","n">>>>,
     <<<<"1","5">>, <<"f","i","f","t","e","e","n">>>>,
     <<<<"1","6">>, <<"s","i","x","t","e","e","n">>>>,
     <<<<"1","7">>, <<"s","e","v","e","n","t","e","e","n">>>>,
     <<<<"1","8">>, <<"e","i","g","h","t","e","e","n">>>>,
     <<<<"1","9">>, <<"n","i","n","e","t","e","e","n">>>>,
     <<<<"2","0">>, <<"t","w","e","n","t","y">>>>,
     <<<<"3","0">>, <<"t","h","i","r","t","y">>>>,
     <<<<"4","0">>, <<"f","o","u","r","t","y">>>>,
     <<<<"5","0">>, <<"f","i","f","t","y">>>>,
     <<<<"6","0">>, <<"s","i","x","t","y">>>>,
     <<<<"7","0">>, <<"s","e","v","e","n","t","y">>>>,
     <<<<"8","0">>, <<"e","i","g","h","t","y">>>>,
     <<<<"9","0">>, <<"n","i","n","e","t","y">>>> >>

(* Constant multiplicative shifts, entry form <<shift, term>>. *)
multiplicative_shifts ==
  << <<2, <<"h","u","n","d","r","e","d">>>>,
     <<3, <<"t","h","o","u","s","a","n","d">>>>,
     <<4, <<"m","y","r","i","a","d">>>> >>

(* bimap lookups.  left.find gives the right component of the pair with the
   key, NotFound for end(); right.find gives the index of the pair with the
   word, 0 for end(). *)
NotFound == <<"end">>

LeftFind(table, key) ==
    LET hits == {k \in 1..Len(table) : table[k][1] = key}
    IN  IF hits = {} THEN NotFound ELSE table[Min(hits)][2]

RightFind(table, word) ==
    LET hits == {k \in 1..Len(table) : table[k][2] = word}
    IN  IF hits = {} THEN 0 ELSE Min(hits)


-----------------------------------------------------------------------------
(* Number classifier and part extractor *)

(* The character codes of the separator symbols the model configures.  "0xB7"
   stands for the byte 0xB7 (the middle dot of Latin-1); char is signed, as in
   the x86 builds, so its code is 183 - 256. *)
CharCode(c) ==
    CASE c = "," -> 44 [] c = "." -> 46 [] c = "'" -> 39 [] c = " " -> 32
      [] c = "0xB7" -> 0 - 73

(* int16_t key = thousands_separator_symbol << 8 | decimal_separator_symbol:
   both characters are promoted to int.  A decimal separator with a negative
   code is sign-extended, so every bit above its low byte is set and the
   shifted thousands separator adds nothing to the bitwise or. *)
pattern_key(options) ==
    LET thousands == CharCode(options.thousands_separator_symbol)
        decimal == CharCode(options.decimal_separator_symbol)
        wide == IF decimal < 0 THEN decimal ELSE thousands * 256 + decimal
    IN  ((wide + 32768) % 65536) - 32768

(* get_number_pattern_regex: the cached pattern of the key when there is one,
   otherwise a pattern compiled from the current separators and inserted.
   A compiled pattern is named by the two characters it was formatted with. *)
get_number_pattern_regex(options, patterns) ==
    LET key == pattern_key(options)
        compiled == [thousands |-> options.thousands_separator_symbol,
                     decimal   |-> options.decimal_separator_symbol,
                     optimize  |-> (DOMAIN patterns = {})]
        updated == IF key \in DOMAIN patterns THEN patterns
                   ELSE [k \in DOMAIN patterns \cup {key} |->
                            IF k = key THEN compiled ELSE patterns[k]]
    IN  [patterns |-> updated, pattern |-> updated[key]]

(* The last index of the run of digits that starts at i (i - 1 when s[i] is no digit). *)
DigitRunEnd(s, i) ==
    LET bad == {k \in i..Len(s) : s[k] \notin DigitChars}
    IN  IF bad = {} THEN Len(s) ELSE Min(bad) - 1

\* The pattern \d{1,3}(?:\T\d{3})* matches exactly s[a..b].
MatchesGrouped(s, a, b, T) ==
    \E L \in 1..3 :
        /\ L <= b - a + 1
        /\ (b - a + 1 - L) % 4 = 0
        /\ AllIn(s, a, a + L - 1, DigitChars)
        /\ \A m \in 0..((b - a + 1 - L) \div 4 - 1) :
              /\ s[a + L + 4 * m] = T
              /\ AllIn(s, a + L + 4 * m + 1, a + L + 4 * m + 3, DigitChars)

\* The pattern \d+ matches exactly s[a..b].
MatchesDigits(s, a, b) == a <= b /\ AllIn(s, a, b, DigitChars)

\* The pattern (?:\D(\d+))?(?:e(-?\d+))?$ matched at position j.
MatchRest(s, j, D) ==
    LET n     == Len(s)
        hasD  == j <= n /\ s[j] = D
        fEnd  == IF hasD THEN DigitRunEnd(s, j + 1) ELSE j - 1
        hasF  == hasD /\ fEnd >= j + 1
        p     == IF hasF THEN fEnd + 1 ELSE j
        hasE  == p <= n /\ s[p] = "e"
        q     == IF hasE /\ p + 1 <= n /\ s[p + 1] = "-" THEN p + 2 ELSE p + 1
        eEnd  == IF hasE THEN DigitRunEnd(s, q) ELSE p - 1
        hasX  == hasE /\ eEnd >= q
        last  == IF hasX THEN eEnd ELSE p - 1
    IN  [ok |-> last = n,
         has_fractional |-> hasF,
         fractional |-> IF hasF THEN SubSeq(s, j + 1, fEnd) ELSE <<>>,
         has_exponent |-> hasX,
         exponent |-> IF hasX THEN SubSeq(s, p + 1, eEnd) ELSE <<>>]

\* std::regex_search(input, matches, number_pattern) for the pattern
\*   ^(-)?((?:\d{1,3}(?:\T\d{3})*)|(?:\d+))?(?:\D(\d+))?(?:e(-?\d+))?$
\* The integral group takes the longest extent that lets the rest match
\* (the greedy alternatives are tried before the group is skipped).
regex_search_number(s, pattern) ==
    LET T == pattern.thousands
        D == pattern.decimal
        n == Len(s)
        neg == n >= 1 /\ s[1] = "-"
        a == IF neg THEN 2 ELSE 1
        ends == {k \in (a - 1)..n :
                    /\ k = n \/ s[k + 1] \in {D, "e"}
                    /\ k < a \/ MatchesGrouped(s, a, k, T) \/ MatchesDigits(s, a, k)
                    /\ MatchRest(s, k + 1, D).ok}
        Groups(k, rest) ==
            [matched |-> TRUE,
             SIGN |-> neg,
             has_INTEGRAL |-> k >= a,
             INTEGRAL |-> SubSeq(s, a, k),
             has_FRACTIONAL |-> rest.has_fractional,
             FRACTIONAL |-> rest.fractional,
             has_EXPONENT |-> rest.has_exponent,
             EXPONENT |-> rest.exponent]
        Longest(found) ==
            IF found = {}
            THEN [matched |-> FALSE]
            ELSE Groups(Max(found), MatchRest(s, Max(found) + 1, D))
    IN  Longest(ends)

(* The value of a string of at most nine digits. *)
RECURSIVE DigitsValue(_)
DigitsValue(s) ==
    IF s = <<>> THEN 0
    ELSE 10 * DigitsValue(SubSeq(s, 1, Len(s) - 1)) + DigitValue(s[Len(s)])

StripLeadingZeros(s) ==
    LET nz == {k \in 1..Len(s) : s[k] # "0"}
    IN  IF nz = {} THEN <<>> ELSE SubSeq(s, Min(nz), Len(s))

(* A conversion that drops the sign of the exponent. *)
stoi_magnitude(s) ==
    [err |-> "",
     value |-> DigitsValue(StripLeadingZeros(IF s # <<>> /\ s[1] = "-" THEN Tail(s) ELSE s))]

(* std::stoi on an optional minus and digits: the value, or std::out_of_range when it does not fit
   a 32-bit int. *)
stoi(s) ==
    LET neg == s # <<>> /\ s[1] = "-"
        d   == StripLeadingZeros(IF neg THEN Tail(s) ELSE s)
        hi  == DigitsValue(SubSeq(d, 1, 9))
        lo  == DigitValue(d[10])
        fits == \/ Len(d) <= 9
                \/ /\ Len(d) = 10
                   /\ \/ hi < 214748364
                      \/ hi = 214748364 /\ lo <= (IF neg THEN 8 ELSE 7)
    IN  IF ~fits THEN [err |-> "out_of_range", value |-> 0]
        ELSE IF Len(d) <= 9
             THEN [err |-> "", value |-> IF neg THEN 0 - DigitsValue(d) ELSE DigitsValue(d)]
             ELSE [err |-> "", value |-> IF neg THEN (0 - hi * 10) - lo ELSE hi * 10 + lo]

(* boost::replace_all(target, sep, "") *)
strip_thousands_separators(target, thousands_separator_symbol) ==
    SelectSeq(target, LAMBDA c : c # thousands_separator_symbol)

(* extract_number_parts with resolve_exponent = true.  ok is the returned
   bool; err names the exception std::stoi raised, if any; patterns is the
   pattern cache after the call. *)
extract_number_parts(options, patterns, input) ==
    LET Failed(got) ==
            [patterns |-> got.patterns, err |-> "", ok |-> FALSE, negative |-> FALSE,
             integral_part |-> <<>>, fractional_part |-> <<>>, exponent |-> 0]
        Resolved(got, m, parsed, integral_part, fractional_part) ==
            LET no == Failed(got)
                exponent == parsed.value
                integral_part_size == Len(integral_part)
                fractional_part_size == Len(fractional_part)
                full_number_size == integral_part_size + fractional_part_size
                decimal_separator_position == integral_part_size + exponent
                offset == decimal_separator_position - full_number_size
                full_number == integral_part \o fractional_part
                resolved ==
                    IF exponent = 0
                    THEN [i |-> integral_part, f |-> fractional_part]
                    ELSE IF offset > 0
                    THEN [i |-> full_number \o Repeat("0", offset), f |-> <<>>]
                    ELSE IF decimal_separator_position < 0
                    THEN [i |-> IF options.force_leading_zero THEN <<"0">> ELSE <<>>,
                          f |-> Repeat("0", 0 - decimal_separator_position) \o full_number]
                    ELSE [i |-> SubSeq(full_number, 1, decimal_separator_position),
                          f |-> SubSeq(full_number, decimal_separator_position + 1,
                                       Len(full_number))]
            IN  IF parsed.err # ""
                THEN [no EXCEPT !.err = parsed.err]
                ELSE [patterns |-> got.patterns, err |-> "", ok |-> TRUE,
                      negative |-> m.SIGN,
                      integral_part |-> resolved.i,
                      fractional_part |-> resolved.f,
                      exponent |-> exponent]
        Matched(got, m) ==
            IF ~m.matched THEN Failed(got)
            ELSE IF ~m.has_INTEGRAL /\ ~m.has_FRACTIONAL THEN Failed(got)
            ELSE Resolved(got, m,
                          IF m.has_EXPONENT THEN stoi(m.EXPONENT) ELSE [err |-> "", value |-> 0],
                          strip_thousands_separators(
                              IF m.has_INTEGRAL THEN m.INTEGRAL ELSE <<>>,
                              options.thousands_separator_symbol),
                          IF m.has_FRACTIONAL THEN m.FRACTIONAL ELSE <<>>)
        Searched(got) == Matched(got, regex_search_number(input, got.pattern))
    IN  Searched(get_number_pattern_regex(options, patterns))

(* converter_c::is_number: [err, value, patterns] *)
is_number(options, patterns, input) ==
    LET Answer(parts) == [err |-> parts.err, value |-> parts.ok, patterns |-> parts.patterns]
    IN  Answer(extract_number_parts(options, patterns, input))

-----------------------------------------------------------------------------
(* Number -> numeral engine *)

(* The concatenation of Piece(lo), ..., Piece(hi): what a loop that streams one
   piece per index into a std::stringstream leaves in it. *)
RECURSIVE StreamPieces(_, _, _)
StreamPieces(Piece(_), lo, hi) ==
    IF lo > hi THEN <<>>
    ELSE IF lo = hi THEN Piece(lo)
    ELSE LET mid == (lo + hi) \div 2
         IN  StreamPieces(Piece, lo, mid) \o StreamPieces(Piece, mid + 1, hi)

(* A ceiling one Latin root higher. *)
beyond_uncentillion(factor) == factor > 101

(* if (factor > 100) throw: no Latin root beyond "centillion". *)
beyond_centillion(factor) == factor > 100

(* One iteration of the loop of parse_integral_numeral, on integral[i].
   st holds the loop's variables: ss, group_digits, any_group_digit_not_zero,
   added_two_digits_term, and err once a std::logic_error was thrown. *)
integral_numeral_step(options, integral, st, i) ==
    LET place == Len(integral) - i
        digit == integral[i]
        group_place == place % 3
        fresh == group_place = 2
        group_digits == (IF fresh THEN <<>> ELSE st.group_digits) \o <<digit>>
        any_group_digit_not_zero ==
            (IF fresh THEN FALSE ELSE st.any_group_digit_not_zero) \/ digit # "0"
        added_before == IF fresh THEN FALSE ELSE st.added_two_digits_term
        own == IF digit # "0" \/ integral = <<"0">> THEN <<digit>> ELSE <<>>
        value == IF digit # "0" /\ group_place = 1
                 THEN own \o <<integral[i + 1]>> ELSE own
        direct == LeftFind(value_to_term, value)
        tens == LeftFind(value_to_term, <<value[1], "0">>)
        (* Encode actual number term. *)
        term ==
            IF value # <<>> /\ ~added_before
            THEN IF direct # NotFound
                 THEN [err |-> "", text |-> direct \o <<" ">>,
                       added |-> added_before \/ Len(value) = 2]
                 ELSE IF Len(value) = 2 /\ tens # NotFound
                 THEN [err |-> "", text |-> tens \o <<"-">>, added |-> added_before]
                 ELSE [err |-> "unable_to_resolve_term", text |-> <<>>, added |-> added_before]
            ELSE [err |-> "", text |-> <<>>, added |-> added_before]
        (* Encode an "-illion" or "-illiard" term. *)
        short == options.naming_system = "short_scale"
        factor == IF short THEN (place - 3) \div 3 ELSE place \div 6
        remainder == IF short THEN 0 ELSE place % 6
        suffix == (IF remainder = 3 THEN W_illiard ELSE W_illion) \o <<" ">>
        root == LeftFind(factor_to_root, factor)
        prefix_value == factor % 10
        prefix == LeftFind(value_to_prefix, prefix_value)
        base_factor == factor - prefix_value
        base_root == LeftFind(factor_to_root, base_factor)
        magnitude ==
            IF any_group_digit_not_zero /\ place >= 6 /\ group_place = 0
            THEN IF beyond_centillion(factor)
                 THEN [err |-> "unsupported_magnitude", text |-> <<>>]
                 ELSE IF root # NotFound
                 THEN [err |-> "", text |-> root \o suffix]
                 ELSE IF prefix = NotFound
                 THEN [err |-> "unable_to_resolve_prefix", text |-> <<>>]
                 ELSE IF base_root = NotFound
                 THEN [err |-> "unable_to_resolve_root", text |-> <<>>]
                 ELSE [err |-> "", text |-> prefix \o base_root \o suffix]
            ELSE IF any_group_digit_not_zero /\ place = 3
            THEN [err |-> "", text |-> W_thousand \o <<" ">>]
            ELSE IF digit # "0" /\ group_place = 2
            THEN [err |-> "", text |-> W_hundred \o <<" ">>]
            ELSE [err |-> "", text |-> <<>>]
        Streamed(number_term, magnitude_term) ==
            IF number_term.err # ""
            THEN [st EXCEPT !.err = number_term.err]
            ELSE [ss |-> st.ss \o number_term.text \o magnitude_term.text,
                  group_digits |-> group_digits,
                  any_group_digit_not_zero |-> any_group_digit_not_zero,
                  added_two_digits_term |-> number_term.added,
                  err |-> magnitude_term.err]
    IN  Streamed(term, magnitude)

(* The loop of parse_integral_numeral over integral[lo..hi], left to right,
   from the loop state st; a throw ends it. *)
RECURSIVE integral_numeral_loop(_, _, _, _, _)
integral_numeral_loop(options, integral, st, lo, hi) ==
    IF lo > hi \/ st.err # "" THEN st
    ELSE integral_numeral_loop(options, integral,
                               integral_numeral_step(options, integral, st, lo), lo + 1, hi)

(* parse_integral_numeral: [err, value].  The loop clears all of its variables
   but ss at the first digit of every group of three (group_place == 2), and
   ss is only appended to; so the loop is run group by group, each from the
   cleared variables, and ss is the texts of the groups one after the other, up
   to the first group that throws. *)
parse_integral_numeral(integral, options) ==
    IF integral = <<>> THEN [err |-> "", value |-> <<>>]
    ELSE LET size == Len(integral)
             head == ((size - 1) % 3) + 1
             groups == (size + 2) \div 3
             first(g) == IF g = 1 THEN 1 ELSE head + 3 * (g - 2) + 1
             last(g) == head + 3 * (g - 1)
             group(g) == integral_numeral_loop(options, integral,
                             [ss |-> <<>>, group_digits |-> <<>>,
                              any_group_digit_not_zero |-> FALSE,
                              added_two_digits_term |-> FALSE, err |-> ""],
                             first(g), last(g))
             text(g) == group(g).ss
             thrown == { g \in 1..groups : group(g).err # "" }
         IN  IF thrown # {} THEN [err |-> group(Min(thrown)).err, value |-> <<>>]
             ELSE [err |-> "", value |-> rtrim(StreamPieces(text, 1, groups))]

RECURSIVE fractional_numeral_loop(_, _)
fractional_numeral_loop(fractional, i) ==
    IF i > Len(fractional) THEN <<>>
    ELSE LeftFind(value_to_term, <<fractional[i]>>) \o <<" ">>
         \o fractional_numeral_loop(fractional, i + 1)

(* parse_fractional_numeral: every character of a fractional part is a digit,
   so the lookup always finds its term. *)
parse_fractional_numeral(fractional, options) ==
    IF fractional = <<>> THEN <<>> ELSE rtrim(fractional_numeral_loop(fractional, 1))

(* A to_numeral that answers "zero" whatever its input, the empty string and
   the strings that are no numbers included. *)
to_numeral_zero_for_unread(options, patterns, number) ==
    [err |-> "", value |-> <<"z", "e", "r", "o">>, patterns |-> patterns]

(* converter_c::to_numeral: [err, value, patterns] *)
to_numeral(options, patterns, number) ==
    IF number = <<>> THEN [err |-> "", value |-> <<>>, patterns |-> patterns]
    ELSE
    LET Spelled(parts, parsed_integral, parsed_fractional) ==
            LET sign == IF parts.negative THEN W_negative ELSE <<>>
                with_integral ==
                    IF parts.integral_part # <<>> /\ parsed_integral.value # <<>>
                    THEN IF sign = <<>> /\ (parts.integral_part # <<"0">>
                                             \/ options.force_leading_zero)
                         THEN parsed_integral.value
                         ELSE IF sign # <<>>
                         THEN sign \o <<" ">> \o parsed_integral.value
                         ELSE sign
                    ELSE sign
                numeral ==
                    IF parts.fractional_part # <<>> /\ parsed_fractional # <<>>
                    THEN IF with_integral = <<>>
                         THEN W_point \o <<" ">> \o parsed_fractional
                         ELSE with_integral \o <<" ">> \o W_point \o <<" ">> \o parsed_fractional
                    ELSE with_integral
            IN  IF parsed_integral.err # ""
                THEN [err |-> parsed_integral.err, value |-> <<>>, patterns |-> parts.patterns]
                ELSE [err |-> "", value |-> numeral, patterns |-> parts.patterns]
        Extracted(parts) ==
            IF parts.err # "" THEN [err |-> parts.err, value |-> <<>>, patterns |-> parts.patterns]
            ELSE IF ~parts.ok THEN [err |-> "", value |-> <<>>, patterns |-> parts.patterns]
            ELSE Spelled(parts,
                         parse_integral_numeral(parts.integral_part, options),
                         parse_fractional_numeral(parts.fractional_part, options))
    IN  Extracted(extract_number_parts(options, patterns, number))

-----------------------------------------------------------------------------
(* Place-string algebra *)

(* merge_places without the throw: where both strings have a non-zero digit,
   the digit of source wins. *)
merge_places_unchecked(source, target) ==
    IF target = <<>> THEN [err |-> "", target |-> source]
    ELSE
    LET ls == Len(source)
        lt == Len(target)
        common == IF ls < lt THEN ls ELSE lt
        overlaid == [k \in 1..lt |->
                        IF lt - k + 1 <= common /\ source[ls - (lt - k)] # "0"
                        THEN source[ls - (lt - k)] ELSE target[k]]
    IN  IF ls > lt
        THEN [err |-> "", target |-> SubSeq(source, 1, ls - lt) \o overlaid]
        ELSE [err |-> "", target |-> overlaid]

(* merge_places: [err, target], target being the string the call leaves in
   its second argument. *)
merge_places(source, target) ==
    IF target = <<>> THEN [err |-> "", target |-> source]
    ELSE
    LET ls == Len(source)
        lt == Len(target)
        common == IF ls < lt THEN ls ELSE lt
        clash == \E j \in 1..common :
                    source[ls - j + 1] # "0" /\ target[lt - j + 1] # "0"
        overlaid == [k \in 1..lt |->
                        IF lt - k + 1 <= common /\ source[ls - (lt - k)] # "0"
                        THEN source[ls - (lt - k)] ELSE target[k]]
    IN  IF clash THEN [err |-> "overlap", target |-> target]
        ELSE IF ls > lt
        THEN [err |-> "", target |-> SubSeq(source, 1, ls - lt) \o overlaid]
        ELSE [err |-> "", target |-> overlaid]

shift_places(places_count, target) == target \o Repeat("0", places_count)

(* Separators put in counting from the left instead of from the right. *)
add_thousands_separators_from_left(target, thousands_separator_symbol) ==
    IF \E k \in 1..Len(target) : target[k] = thousands_separator_symbol
    THEN target
    ELSE LET Piece(k) == IF k - 1 > 0 /\ (k - 1) % 3 = 0
                         THEN <<thousands_separator_symbol, target[k]>>
                         ELSE <<target[k]>>
         IN  StreamPieces(Piece, 1, Len(target))

add_thousands_separators(target, thousands_separator_symbol) ==
    IF \E k \in 1..Len(target) : target[k] = thousands_separator_symbol
    THEN target
    ELSE LET offset == Len(target) % 3
             Piece(k) == IF k - 1 > 0 /\ (k - 1) % 3 = offset
                         THEN <<thousands_separator_symbol, target[k]>>
                         ELSE <<target[k]>>
         IN  StreamPieces(Piece, 1, Len(target))

-----------------------------------------------------------------------------
(* Term lookups *)

(* find_prefix: the index in value_to_prefix_right of the first prefix the
   subject starts with, 0 for end(). *)
find_prefix(subject) ==
    LET hits == {k \in 1..Len(value_to_prefix_right) :
                    StartsWith(subject, value_to_prefix_right[k][2])}
    IN  IF hits = {} THEN 0 ELSE Min(hits)

(* Whether the int that operator>> reads from the term is greater than 99
   (a value that does not fit an int is stored as its largest value). *)
ReadsAbove99(term) ==
    Len(StripLeadingZeros(SubSeq(term, 1, DigitRunEnd(term, 1)))) >= 3

(* An additive lookup that reads an unknown word as "0" instead of throwing. *)
find_additive_value_or_zero(term, max_allowed_digits, allow_numbers_greater_99) ==
    IF \E k \in 1..Len(term) : term[k] \in DigitChars
    THEN IF ~allow_numbers_greater_99 /\ ReadsAbove99(term)
         THEN [err |-> "number_greater_than_99", value |-> <<>>]
         ELSE [err |-> "", value |-> term]
    ELSE LET at == RightFind(value_to_term, term)
             value == value_to_term[at][1]
         IN  IF at = 0 THEN [err |-> "", value |-> <<"0">>]
             ELSE IF Len(value) > max_allowed_digits
             THEN [err |-> "not_allowed_at_this_place", value |-> <<>>]
             ELSE [err |-> "", value |-> value]

(* find_additive_value: [err, value] *)
find_additive_value(term, max_allowed_digits, allow_numbers_greater_99) ==
    IF \E k \in 1..Len(term) : term[k] \in DigitChars
    THEN IF ~allow_numbers_greater_99 /\ ReadsAbove99(term)
         THEN [err |-> "number_greater_than_99", value |-> <<>>]
         ELSE [err |-> "", value |-> term]
    ELSE LET at == RightFind(value_to_term, term)
             value == value_to_term[at][1]
         IN  IF at = 0 THEN [err |-> "not_a_valid_term", value |-> <<>>]
             ELSE IF Len(value) > max_allowed_digits
             THEN [err |-> "not_allowed_at_this_place", value |-> <<>>]
             ELSE [err |-> "", value |-> value]

(* A short scale that counts its Latin roots from thousand instead of million. *)
short_scale_shift_from_thousand(root_factor) == 3 * root_factor

(* The lambda short_scale_shift of find_multiplicative_shift. *)
short_scale_shift(root_factor) == 3 * root_factor + 3

(* A long scale shift that takes every term for an -illion. *)
long_scale_shift_without_illiard(root_factor, illiard) == 6 * root_factor

(* The lambda long_scale_shift of find_multiplicative_shift; illiard tells
   whether the captured root_suffix is "illiard". *)
long_scale_shift(root_factor, illiard) ==
    IF illiard THEN 6 * root_factor + 3 ELSE 6 * root_factor

(* find_multiplicative_shift: [err, value] *)
find_multiplicative_shift(term, options) ==
    LET illiard == EndsWith(term, W_illiard)
        illion == EndsWith(term, W_illion)
        root_base == SubSeq(term, 1, Len(term) - (IF illiard THEN 7 ELSE 6))
        long == options.naming_system = "long_scale"
        scale_shift(root_factor) ==
            IF long THEN long_scale_shift(root_factor, illiard)
            ELSE short_scale_shift(root_factor)
        direct == RightFind(factor_to_root, root_base)
        pre == find_prefix(root_base)
        actual_prefix == value_to_prefix_right[pre][2]
        actual_root == SubSeq(root_base, Len(actual_prefix) + 1, Len(root_base))
        rooted == RightFind(factor_to_root, actual_root)
        fixed == RightFind(multiplicative_shifts, term)
    IN  IF illiard \/ illion
        THEN IF ~long /\ illiard
             THEN [err |-> "long_scale_term_but_not_long_scale", value |-> 0]
             ELSE IF direct # 0
             THEN [err |-> "", value |-> scale_shift(factor_to_root[direct][1])]
             ELSE IF pre = 0
             THEN [err |-> "not_a_valid_root_term", value |-> 0]
             ELSE IF rooted = 0
             THEN [err |-> "not_a_valid_root_term", value |-> 0]
             ELSE [err |-> "", value |-> scale_shift(factor_to_root[rooted][1]
                                                     + value_to_prefix_right[pre][1])]
        ELSE IF fixed # 0
        THEN [err |-> "", value |-> multiplicative_shifts[fixed][1]]
        ELSE [err |-> "not_a_valid_term", value |-> 0]

-----------------------------------------------------------------------------
(* Numeral -> number engine *)

(* The characters the split pattern [\s-]+ matches. *)
SplitChars == SpaceChars \cup {"-"}

(* The k-th smallest element of a set of integers. *)
Nth(S, k) == CHOOSE x \in S : Cardinality({y \in S : y < x}) = k - 1

(* std::sregex_token_iterator(s, [\s-]+, -1): the stretches between the
   separator runs, in order.  The stretch before the first run is reported
   even when it is empty, the one after the last run only when it is not. *)
split_terms(s) ==
    LET n == Len(s)
        stop(i) == Min({j \in i..n : j = n \/ s[j + 1] \in SplitChars})
        Words(starts) ==
            [k \in 1..Cardinality(starts) |-> SubSeq(s, Nth(starts, k), stop(Nth(starts, k)))]
        words ==
            Words({i \in 1..n : s[i] \notin SplitChars /\ (i = 1 \/ s[i - 1] \in SplitChars)})
    IN  IF n > 0 /\ s[1] \in SplitChars THEN <<<<>>>> \o words ELSE words

(* The initial value of last_group_total_multiplicative_shift.  The source has
   std::numeric_limits<uint32_t>::max(); the model's integers are 32 bits wide
   and signed, and no sum of shifts comes near either value. *)
no_group_total_shift == 2147483647

(* A parser that completes a sub-numeral without comparing its total shift
   with that of the sub-numeral before it. *)
sub_numeral_order_unchecked(current_total, last_total) == ""

(* The comparison both places that complete a sub-numeral make between its
   total shift and that of the sub-numeral before it: the exception to throw,
   or "" for none. *)
sub_numeral_order_error(current_total, last_total) ==
    IF current_total = last_total THEN "duplicate_sub_numeral_magnitudes"
    ELSE IF current_total > last_total THEN "incorrect_sub_numeral_order"
    ELSE ""

(* A parser that lets any magnitude follow any other. *)
lower_never_follows(current_multiplicative_shift, last_multiplicative_shift) == FALSE

(* if (current_multiplicative_shift < last_multiplicative_shift) throw *)
lower_follows_higher(current_multiplicative_shift, last_multiplicative_shift) ==
    current_multiplicative_shift < last_multiplicative_shift

(* The group a multiplicative term shifts, without the implicit 1. *)
never_implicit_one(groups, current_group) == current_group

(* Add an implicit 1 if that is missing at the beginning of the numeral:
   if (groups.empty() && current_group.empty()) current_group = "1"; *)
implicit_one(groups, current_group) ==
    IF groups = <<>> /\ current_group = <<>> THEN <<"1">> ELSE current_group

(* One iteration of the loop of parse_integral_number, on one term.  st holds
   the function's local variables, and err once an exception was thrown. *)
integral_number_step(st, term, conversion_options_) ==
    LET at_start == st.groups = <<>> /\ st.current_group = <<>>
        Classified(additive, multiplicative) ==
            LET sub_numeral == IF at_start THEN term ELSE st.current_sub_numeral
                current_additive_value == additive.value
                current_multiplicative_shift == multiplicative.value
                (* An additive term after a magnitude of thousand or more closes the group. *)
                closes == st.last_term_multiplicative /\ st.last_multiplicative_shift >= 3
                closed ==
                    IF closes
                    THEN [st EXCEPT
                            !.groups = Append(st.groups, st.current_group),
                            !.current_group = <<>>,
                            !.last_sub_numeral = sub_numeral,
                            !.current_sub_numeral = term,
                            !.last_group_total_multiplicative_shift =
                                st.current_group_total_multiplicative_shift,
                            !.current_group_total_multiplicative_shift = 0,
                            !.last_multiplicative_shift = 0]
                    ELSE [st EXCEPT !.current_sub_numeral = sub_numeral]
                merged == merge_places(current_additive_value, closed.current_group)
                seeded == implicit_one(st.groups, st.current_group)
                order_error == sub_numeral_order_error(st.current_group_total_multiplicative_shift,
                                                       st.last_group_total_multiplicative_shift)
            IN  IF at_start /\ term = W_a
                THEN [st EXCEPT !.current_sub_numeral = term, !.current_group = <<"1">>,
                                !.last_term = term]
                ELSE IF at_start /\ term \in {W_negative, W_minus}
                THEN [st EXCEPT !.current_sub_numeral = term, !.negative = TRUE,
                                !.last_term = term]
                ELSE IF additive.err # "" /\ multiplicative.err # ""
                THEN [st EXCEPT !.err = additive.err]
                ELSE IF additive.err = ""
                THEN (* Process additive term. *)
                     IF closes /\ order_error # ""
                     THEN [st EXCEPT !.err = order_error]
                     ELSE IF closed.last_additive_value # <<>>
                             /\ Len(closed.last_additive_value) < Len(current_additive_value)
                     THEN [st EXCEPT !.err = "greater_value_terms_first"]
                     ELSE IF merged.err # ""
                     THEN [st EXCEPT !.err = merged.err]
                     ELSE [closed EXCEPT
                             !.last_term_multiplicative = FALSE,
                             !.current_group = merged.target,
                             !.last_additive_value = current_additive_value,
                             !.last_term = term]
                ELSE (* Process multiplicative term. *)
                     IF lower_follows_higher(current_multiplicative_shift,
                                             st.last_multiplicative_shift)
                     THEN [st EXCEPT !.err = "lower_multiplicative_term_follows_higher"]
                     ELSE IF seeded = <<"0">>
                     THEN [st EXCEPT !.err = "zero_only_allowed_on_its_own"]
                     ELSE [st EXCEPT
                             !.current_sub_numeral = sub_numeral \o <<" ">> \o term,
                             !.last_term_multiplicative = TRUE,
                             !.last_multiplicative_shift = current_multiplicative_shift,
                             !.current_group_total_multiplicative_shift =
                                 st.current_group_total_multiplicative_shift
                                 + current_multiplicative_shift,
                             !.current_group = shift_places(current_multiplicative_shift, seeded),
                             !.last_additive_value = <<>>,
                             !.last_term = term]
    IN  Classified(find_additive_value(term, 3, at_start),
                   find_multiplicative_shift(term, conversion_options_))

RECURSIVE integral_number_loop(_, _, _, _)
integral_number_loop(st, terms, i, conversion_options_) ==
    IF i > Len(terms) \/ st.err # "" THEN st
    ELSE integral_number_loop(integral_number_step(st, terms[i], conversion_options_),
                              terms, i + 1, conversion_options_)

(* for (const auto &group : groups) merge_places(group, result); *)
RECURSIVE merge_groups(_, _, _)
merge_groups(groups, i, result) ==
    IF i > Len(groups) \/ result.err # "" THEN result
    ELSE merge_groups(groups, i + 1, merge_places(groups[i], result.target))

(* The local variables of parse_integral_number when its loop is done. *)
integral_number_state(integral, conversion_options_) ==
    integral_number_loop(
        [negative |-> FALSE, groups |-> <<>>, current_group |-> <<>>,
         last_term |-> <<>>, last_sub_numeral |-> <<>>, current_sub_numeral |-> <<>>,
         last_additive_value |-> <<>>, last_multiplicative_shift |-> 0,
         last_group_total_multiplicative_shift |-> no_group_total_shift,
         current_group_total_multiplicative_shift |-> 0,
         last_term_multiplicative |-> FALSE, err |-> ""],
        split_terms(integral), 1, conversion_options_)

(* parse_integral_number: [err, value] *)
parse_integral_number(integral, conversion_options_) ==
    IF integral = <<>> THEN [err |-> "", value |-> <<>>]
    ELSE
    LET Merged(st, result) ==
            LET separated == IF conversion_options_.use_thousands_separators
                             THEN add_thousands_separators(result.target,
                                      conversion_options_.thousands_separator_symbol)
                             ELSE result.target
            IN  IF result.err # "" THEN [err |-> result.err, value |-> <<>>]
                ELSE [err |-> "",
                      value |-> IF st.negative THEN <<"-">> \o separated ELSE separated]
        Looped(st) ==
            LET order_error ==
                    sub_numeral_order_error(st.current_group_total_multiplicative_shift,
                                            st.last_group_total_multiplicative_shift)
            IN  IF st.err # "" THEN [err |-> st.err, value |-> <<>>]
                ELSE IF st.groups = <<>> /\ st.current_group = <<>> /\ st.negative
                THEN [err |-> "numeral_must_not_be_empty", value |-> <<>>]
                ELSE IF order_error # "" THEN [err |-> order_error, value |-> <<>>]
                ELSE Merged(st, merge_groups(Append(st.groups, st.current_group), 1,
                                             [err |-> "", target |-> <<>>]))
    IN  Looped(integral_number_state(integral, conversion_options_))

RECURSIVE fractional_number_loop(_, _, _)
fractional_number_loop(terms, i, ss) ==
    IF i > Len(terms) \/ ss.err # "" THEN ss
    ELSE LET digit == find_additive_value(terms[i], 1, TRUE)
         IN  fractional_number_loop(terms, i + 1,
                 IF digit.err # "" THEN [err |-> digit.err, value |-> <<>>]
                 ELSE [err |-> "", value |-> ss.value \o digit.value])

(* parse_fractional_number: [err, value] *)
parse_fractional_number(fractional, conversion_options_) ==
    IF fractional = <<>> THEN [err |-> "", value |-> <<>>]
    ELSE fractional_number_loop(split_terms(fractional), 1, [err |-> "", value |-> <<>>])

\* std::regex_match(input, _numeral_pattern) for the pattern
\*   ^(?:[a-z]+|[0-9]+)(?:(?:[\t ]+|-)(?:[a-z]+|[0-9]+))*$
\* Words of letters or of digits, with a run of blanks or one hyphen between
\* two of them.
regex_match_numeral(s) ==
    LET n == Len(s)
        alnum == LowerChars \cup DigitChars
        blank == {"\t", " "}
    IN  /\ n > 0
        /\ s[1] \in alnum
        /\ s[n] \in alnum
        /\ \A k \in 1..n : s[k] \in alnum \cup blank \cup {"-"}
        /\ \A k \in 1..(n - 1) :
              \/ s[k] \in LowerChars /\ s[k + 1] \in LowerChars
              \/ s[k] \in DigitChars /\ s[k + 1] \in DigitChars
              \/ s[k] \in alnum /\ s[k + 1] \in blank \cup {"-"}
              \/ s[k] \in blank /\ s[k + 1] \in alnum \cup blank
              \/ s[k] = "-" /\ s[k + 1] \in alnum

(* An is_numeral that lets the lone sign words through. *)
is_numeral_lone_sign_allowed(input) == regex_match_numeral(input)

(* converter_c::is_numeral *)
is_numeral(input) ==
    regex_match_numeral(input) /\ input # W_negative /\ input # W_minus

\* The first match of the pattern " ?point " in s at or after position from:
\* <<first index, last index>>, or <<0, 0>> when there is none.
search_point(s, from) ==
    LET spaced == <<" ">> \o W_point \o <<" ">>
        bare == W_point \o <<" ">>
        at == {i \in from..Len(s) : Occurs(s, spaced, i) \/ Occurs(s, bare, i)}
        i == Min(at)
    IN  IF at = {} THEN <<0, 0>>
        ELSE IF Occurs(s, spaced, i) THEN <<i, i + 6>> ELSE <<i, i + 5>>

\* std::sregex_token_iterator(numeral, " ?point ", -1): the parts between the
\* matches; the part after the last match is reported only when not empty.
RECURSIVE split_point(_, _)
split_point(s, from) ==
    LET Parts(m) ==
            IF m[1] = 0
            THEN IF from > Len(s) THEN <<>> ELSE <<SubSeq(s, from, Len(s))>>
            ELSE <<SubSeq(s, from, m[1] - 1)>> \o split_point(s, m[2] + 1)
    IN  Parts(search_point(s, from))

(* converter_c::to_number: [err, value] *)
to_number(options, numeral) ==
    IF numeral = <<>> THEN [err |-> "numeral_must_not_be_empty", value |-> <<>>]
    ELSE IF ~is_numeral(numeral) THEN [err |-> "numeral_is_invalid", value |-> <<>>]
    ELSE
    LET Joined(number, parsed_fractional) ==
            LET whole == IF number.value = <<>> THEN <<"0">> ELSE number.value
            IN  IF parsed_fractional.err # "" THEN parsed_fractional
                ELSE [err |-> "",
                      value |-> whole \o <<options.decimal_separator_symbol>>
                                \o (IF parsed_fractional.value = <<>> THEN <<"0">>
                                    ELSE parsed_fractional.value)]
        Integral(parts, number) ==
            IF number.err # "" THEN number
            ELSE IF Len(parts) # 2 THEN number
            ELSE Joined(number, parse_fractional_number(parts[2], options))
        Split(parts) ==
            IF Len(parts) >= 3 THEN [err |-> "point_only_allowed_once", value |-> <<>>]
            ELSE Integral(parts, parse_integral_number(parts[1], options))
    IN  Split(split_point(numeral, 1))

(* converter_c::convert: [err, value, patterns].  is_number and to_numeral
   each look the pattern up; a throw of is_number ends the call. *)
convert(options, patterns, input) ==
    LET Number(asked, number) ==
            [err |-> number.err, value |-> number.value, patterns |-> asked.patterns]
        Asked(asked) ==
            IF asked.err # ""
            THEN [err |-> asked.err, value |-> <<>>, patterns |-> asked.patterns]
            ELSE IF asked.value THEN to_numeral(options, asked.patterns, input)
            ELSE Number(asked, to_number(options, input))
    IN  Asked(is_number(options, patterns, input))

-----------------------------------------------------------------------------
(* The converter as a state machine *)

NamingSystems == {"undefined", "short_scale", "long_scale"}

(* conversion_options_t with its default member initializers.  language,
   debug_output and use_scientific_notation change no result and are left out. *)
DefaultOptions ==
    [naming_system |-> "short_scale",
     use_thousands_separators |-> TRUE,
     force_leading_zero |-> TRUE,
     thousands_separator_symbol |-> ",",
     decimal_separator_symbol |-> "."]

(* No call yet, or no call that supplied the input of the current one. *)
NoCall == [op |-> "none", input |-> <<>>, err |-> "", value |-> <<>>, flag |-> FALSE]

(* converter_c::converter_c(conversion_options): the options are stored and the
   initial number pattern is compiled. *)
Construct(options) ==
    /\ conversion_options = options
    /\ number_patterns = get_number_pattern_regex(options, <<>>).patterns
    /\ call = NoCall
    /\ prev = NoCall

(* The caller is between calls: the last result has been consumed. *)
Idle == call.op = "none"

(* A call of is_number(input) on the converter. *)
IsNumber(input) ==
    LET Answered(r) ==
            /\ call' = [op |-> "is_number", input |-> input, err |-> r.err,
                        value |-> <<>>, flag |-> r.value]
            /\ number_patterns' = r.patterns
            /\ prev' = NoCall
            /\ UNCHANGED conversion_options
    IN  /\ Idle
        /\ Answered(is_number(conversion_options, number_patterns, input))

(* A call of is_numeral(input) on the converter: a const member that reads
   the numeral pattern only. *)
IsNumeral(input) ==
    /\ Idle
    /\ call' = [op |-> "is_numeral", input |-> input, err |-> "",
                value |-> <<>>, flag |-> is_numeral(input)]
    /\ prev' = NoCall
    /\ UNCHANGED <<conversion_options, number_patterns>>

(* A call of to_numeral(input), from which is the call that produced input. *)
CallToNumeral(input, from) ==
    LET Answered(r) ==
            /\ call' = [op |-> "to_numeral", input |-> input, err |-> r.err,
                        value |-> r.value, flag |-> FALSE]
            /\ number_patterns' = r.patterns
            /\ prev' = from
            /\ UNCHANGED conversion_options
    IN  Answered(to_numeral(conversion_options, number_patterns, input))

(* A call of to_number(input), from which is the call that produced input. *)
CallToNumber(input, from) ==
    LET Answered(r) ==
            /\ call' = [op |-> "to_number", input |-> input, err |-> r.err,
                        value |-> r.value, flag |-> FALSE]
            /\ prev' = from
            /\ UNCHANGED <<conversion_options, number_patterns>>
    IN  Answered(to_number(conversion_options, input))

ToNumeral(input) == Idle /\ CallToNumeral(input, NoCall)

ToNumber(input) == Idle /\ CallToNumber(input, NoCall)

(* The numeral a to_numeral call returned is handed to to_number. *)
NumeralBack ==
    /\ call.op = "to_numeral"
    /\ call.err = ""
    /\ prev = NoCall
    /\ CallToNumber(call.value, call)

(* The number a to_number call returned is handed to to_numeral. *)
NumberBack ==
    /\ call.op = "to_number"
    /\ call.err = ""
    /\ prev = NoCall
    /\ CallToNumeral(call.value, call)

(* A call of convert(input) on the converter. *)
Convert(input) ==
    LET Answered(r) ==
            /\ call' = [op |-> "convert", input |-> input, err |-> r.err,
                        value |-> r.value, flag |-> FALSE]
            /\ number_patterns' = r.patterns
            /\ prev' = NoCall
            /\ UNCHANGED conversion_options
    IN  /\ Idle
        /\ Answered(convert(conversion_options, number_patterns, input))

(* The caller consumes the result (or catches the exception) and is ready for
   its next call; the compiled number patterns stay. *)
Return ==
    /\ ~Idle
    /\ call' = NoCall
    /\ prev' = NoCall
    /\ UNCHANGED <<conversion_options, number_patterns>>

-----------------------------------------------------------------------------
(* Inputs of the default session: number strings in every shape the number
   pattern knows, under each setting of the two formatting switches. *)

MaxIntegralDigits == 3

MaxFractionDigits == 2

MaxExponent == 2

Digits == <<"0", "1", "2", "3", "4", "5", "6", "7", "8", "9">>

Strings(chars, n) == UNION { [1..k -> chars] : k \in 0..n }

SignPrefixes == {<<>>, <<"-">>}

IntegralInputs == Strings({"0", "1"}, MaxIntegralDigits)

FractionInputs(D) ==
    {<<>>} \cup { <<D>> \o f : f \in Strings({"0", "5"}, MaxFractionDigits) \ {<<>>} }

ExponentInputs ==
    {<<>>} \cup { <<"e">> \o m \o <<Digits[k + 1]>> : m \in SignPrefixes, k \in 0..MaxExponent }

NumberInputs(D) ==
    { s \o i \o f \o e : s \in SignPrefixes, i \in IntegralInputs,
                         f \in FractionInputs(D), e \in ExponentInputs }

SessionOptions ==
    { [DefaultOptions EXCEPT !.force_leading_zero = z, !.use_thousands_separators = u] :
        z \in BOOLEAN, u \in BOOLEAN }

Init == \E options \in SessionOptions : Construct(options)

Next ==
    \/ \E n \in NumberInputs(conversion_options.decimal_separator_symbol) : ToNumeral(n)
    \/ NumeralBack
    \/ Return

Spec == Init /\ [][Next]_vars

-----------------------------------------------------------------------------
(* Reference reading of a number string, written from the number's notation
   alone: sign, integral digits, fractional digits, power of ten. *)

IndexOf(s, c) ==
    IF \E i \in 1..Len(s) : s[i] = c
    THEN Min({ i \in 1..Len(s) : s[i] = c })
    ELSE 0

Zeros(n) == [i \in 1..n |-> "0"]

RECURSIVE RefNat(_)
RefNat(s) == IF s = <<>> THEN 0 ELSE 10 * RefNat(SubSeq(s, 1, Len(s) - 1)) + DigitValue(s[Len(s)])

RefNegative(n) == n # <<>> /\ n[1] = "-"

RefBody(n) == IF RefNegative(n) THEN Tail(n) ELSE n

RefMantissa(n) ==
    LET b == RefBody(n)
        e == IndexOf(b, "e")
    IN  IF e = 0 THEN b ELSE SubSeq(b, 1, e - 1)

RefExponent(n) ==
    LET b == RefBody(n)
        e == IndexOf(b, "e")
        x == SubSeq(b, e + 1, Len(b))
    IN  IF e = 0 THEN 0
        ELSE IF x[1] = "-" THEN 0 - RefNat(Tail(x))
        ELSE RefNat(x)

RefIntegralDigits(n, options) ==
    LET m == RefMantissa(n)
        d == IndexOf(m, options.decimal_separator_symbol)
        i == IF d = 0 THEN m ELSE SubSeq(m, 1, d - 1)
    IN  SelectSeq(i, LAMBDA c : c # options.thousands_separator_symbol)

RefFractionalDigits(n, options) ==
    LET m == RefMantissa(n)
        d == IndexOf(m, options.decimal_separator_symbol)
    IN  IF d = 0 THEN <<>> ELSE SubSeq(m, d + 1, Len(m))

(* The digits left and right of the decimal point once the power of ten is
   applied; leading zeros of the integral digits carry no value. *)
RefResolved(n, options) ==
    LET i == RefIntegralDigits(n, options)
        f == RefFractionalDigits(n, options)
        all == i \o f
        p == Len(i) + RefExponent(n)
        int == IF p <= 0 THEN <<>>
               ELSE IF p >= Len(all) THEN all \o Zeros(p - Len(all))
               ELSE SubSeq(all, 1, p)
        frac == IF p <= 0 THEN Zeros(0 - p) \o all
                ELSE IF p >= Len(all) THEN <<>>
                ELSE SubSeq(all, p + 1, Len(all))
        lead == IF \E k \in 1..Len(int) : int[k] # "0"
                THEN Min({ k \in 1..Len(int) : int[k] # "0" })
                ELSE Len(int) + 1
    IN  [integral |-> SubSeq(int, lead, Len(int)), fractional |-> frac]

RefGrouped(digits, T) ==
    LET n == Len(digits)
        Piece(k) == IF k > 1 /\ (n - k + 1) % 3 = 0 THEN <<T, digits[k]>> ELSE <<digits[k]>>
    IN  StreamPieces(Piece, 1, n)

(* The renderings of n the options allow: the sign kept (a zero may lose it),
   the integral digits grouped when use_thousands_separators is on, a lone "0"
   for an empty integral part (required when force_leading_zero is on or no
   fractional digits follow), the fractional digits after the decimal
   separator. *)
NormalForms(n, options) ==
    LET r == RefResolved(n, options)
        zero == r.integral = <<>> /\ \A k \in 1..Len(r.fractional) : r.fractional[k] = "0"
        signs == IF ~RefNegative(n) THEN {<<>>}
                 ELSE IF zero THEN {<<>>, <<"-">>}
                 ELSE {<<"-">>}
        ints == IF r.integral # <<>>
                THEN { IF options.use_thousands_separators
                       THEN RefGrouped(r.integral, options.thousands_separator_symbol)
                       ELSE r.integral }
                ELSE IF options.force_leading_zero \/ r.fractional = <<>> THEN {<<"0">>}
                ELSE {<<"0">>, <<>>}
        frac == IF r.fractional = <<>> THEN <<>>
                ELSE <<options.decimal_separator_symbol>> \o r.fractional
    IN  { s \o i \o frac : s \in signs, i \in ints }

(* is_number accepts the input under the converter's current options. *)
Accepted(input) ==
    LET r == is_number(conversion_options, number_patterns, input)
    IN  r.err = "" /\ r.value

-----------------------------------------------------------------------------
(* C1: round trip number -> numeral -> number.  For every input n that
   is_number accepts under the converter's options, to_numeral(n) returns a
   numeral, to_number accepts that numeral, and the number it returns is n
   rendered under the current separator settings and force_leading_zero rule:
   same sign, same integral and fractional digits after exponent resolution. *)
C1_RoundTrip ==
    /\ (call.op = "to_numeral" /\ prev = NoCall /\ Accepted(call.input))
          => call.err = ""
    /\ (call.op = "to_number" /\ prev.op = "to_numeral" /\ Accepted(prev.input))
          => /\ call.err = ""
             /\ call.value \in NormalForms(prev.input, conversion_options)

(* C1: the accepted number "-.5" has been spelled "negative point five" and
   to_number has refused that numeral. *)
C1_NegativeFractionRefused ==
    /\ call.op = "to_number"
    /\ prev.op = "to_numeral"
    /\ prev.input = <<"-", ".", "5">>
    /\ Accepted(prev.input)
    /\ call.input = <<"n","e","g","a","t","i","v","e"," ","p","o","i","n","t"," ","f","i","v","e">>
    /\ call.err = "numeral_must_not_be_empty"

-----------------------------------------------------------------------------
(* The number classifier on its own: is_number over every short string of the
   characters the number pattern mentions, and over the strings of the test
   suite, once with T = ',' D = '.' and once with T = '.' D = ','. *)

MaxShapeLen == 5

ShapeChars == {"1", ",", ".", "-", "e"}

(* Strings the test suite expects is_number to reject with T = ',' and D = '.'. *)
RejectedExamples ==
    { <<>>,
      <<"-">>,
      <<"1", "-", "e", "3">>,
      <<"1", ",", "0", "0", "0", ",", "0", "0">>,
      <<"1", ",", "0", "0", ",", "0", "0", "0">>,
      <<"0", ".", "3", "3", "3", ".", "3", "3", "3">>,
      <<"0", ".", "3", "3", "3", " ", "3", "3", "3">> }

(* Strings the test suite expects is_number to accept with T = ',' and D = '.'. *)
AcceptedExamples ==
    { <<".", "7", "5">>,
      <<"1", "e", "-", "3">>,
      <<"1", ",", "0", "0", "0", ",", "0", "0", "0">>,
      <<"-", "6", ".", "2", "5", "e", "-", "2">>,
      <<"0">>,
      <<"1">>,
      <<"1", "e", "3">>,
      <<"1", ",", "0", "0", "0">>,
      <<"0", ".", "3", "3", "3", "3", "3", "3">> }

(* Numbers whose exponent lies beyond the range of int. *)
WideExponentExamples ==
    { <<"1", "e", "2", "1", "4", "7", "4", "8", "3", "6", "4", "8">>,
      <<"1", "e", "-", "2", "1", "4", "7", "4", "8", "3", "6", "4", "9">>,
      <<"1", "e", "9", "9", "9", "9", "9", "9", "9", "9", "9", "9", "9">> }

(* The same string written for the other pair of separators. *)
SwapSeparators(s) ==
    [i \in 1..Len(s) |-> IF s[i] = "," THEN "." ELSE IF s[i] = "." THEN "," ELSE s[i]]

EnglishOptions == DefaultOptions

GermanOptions ==
    [DefaultOptions EXCEPT !.thousands_separator_symbol = ".", !.decimal_separator_symbol = ","]

ShapeInputs ==
    LET examples == RejectedExamples \cup AcceptedExamples \cup WideExponentExamples
    IN  Strings(ShapeChars, MaxShapeLen) \cup examples \cup { SwapSeparators(s) : s \in examples }

InitShapes == \E options \in {EnglishOptions, GermanOptions} : Construct(options)

NextShapes ==
    \/ \E s \in ShapeInputs : IsNumber(s)
    \/ Return

SpecShapes == InitShapes /\ [][NextShapes]_vars

(* The shape [-]? ( d{1,3}(T d{3})* | d+ )? ( D d+ )? ( e -? d+ )? with at
   least one of the integral and fractional parts, stated as the existence of
   a decomposition of s into sign, integral, fractional and exponent. *)
IsDigitString(x) == x # <<>> /\ \A i \in 1..Len(x) : x[i] \in DigitChars

IsGroupedString(x, T) ==
    \E g \in 1..3 :
        /\ Len(x) >= g
        /\ (Len(x) - g) % 4 = 0
        /\ \A i \in 1..Len(x) :
              IF i > g /\ (i - g - 1) % 4 = 0 THEN x[i] = T ELSE x[i] \in DigitChars

HasNumberShape(s, T, D) ==
    \E i \in 0..1, j \in 0..Len(s), k \in 0..Len(s) :
        LET sign == SubSeq(s, 1, i)
            integral == SubSeq(s, i + 1, j)
            fractional == SubSeq(s, j + 1, k)
            exponent == SubSeq(s, k + 1, Len(s))
        IN  /\ i <= j /\ j <= k /\ i <= Len(s)
            /\ sign \in {<<>>, <<"-">>}
            /\ integral = <<>> \/ IsGroupedString(integral, T) \/ IsDigitString(integral)
            /\ fractional = <<>> \/ (fractional[1] = D /\ IsDigitString(Tail(fractional)))
            /\ \/ exponent = <<>>
               \/ exponent[1] = "e" /\ IsDigitString(Tail(exponent))
               \/ /\ Len(exponent) >= 2
                  /\ exponent[1] = "e" /\ exponent[2] = "-"
                  /\ IsDigitString(SubSeq(exponent, 3, Len(exponent)))
            /\ integral # <<>> \/ fractional # <<>>

(* The example as written for the converter's separators. *)
Localized(s) ==
    IF conversion_options.decimal_separator_symbol = "," THEN SwapSeparators(s) ELSE s

(* is_number answers by the shape wherever it answers at all, and answers the
   examples of the test suite as the suite expects. *)
ShapeWhereAnswered ==
    (call.op = "is_number" /\ call.err = "") =>
        /\ call.flag <=> HasNumberShape(call.input, conversion_options.thousands_separator_symbol,
                                        conversion_options.decimal_separator_symbol)
        /\ call.input \in { Localized(s) : s \in RejectedExamples } => ~call.flag
        /\ call.input \in { Localized(s) : s \in AcceptedExamples } => call.flag

(* C2: is_number(s) returns true exactly when s has the number shape under the
   configured separators, and false otherwise; in particular the rejected and
   accepted examples of the claim come out as listed, under both pairs of
   separators. *)
C2_NumberShape ==
    call.op = "is_number" => (call.err = "" /\ ShapeWhereAnswered)

(* C2: is_number was asked about "1e2147483648", which has the number shape,
   and ended in std::out_of_range instead of answering. *)
C2_WideExponentThrows ==
    /\ call.op = "is_number"
    /\ call.input = <<"1", "e", "2", "1", "4", "7", "4", "8", "3", "6", "4", "8">>
    /\ HasNumberShape(call.input, conversion_options.thousands_separator_symbol,
                      conversion_options.decimal_separator_symbol)
    /\ call.err = "out_of_range"

-----------------------------------------------------------------------------
(* The numeral parser on its own: to_number, under the default options, over
   every numeral of up to MaxTerms words of a small vocabulary and over the
   numerals of the test suite. *)

MaxTerms == 4

(* The words the generated numerals are made of: zero, additive terms of one and of two digits, and three magnitudes. *)
Vocabulary ==
    { <<"z", "e", "r", "o">>,
      <<"o", "n", "e">>,
      <<"e", "l", "e", "v", "e", "n">>,
      <<"t", "w", "e", "n", "t", "y">>,
      <<"h", "u", "n", "d", "r", "e", "d">>,
      <<"t", "h", "o", "u", "s", "a", "n", "d">>,
      <<"m", "i", "l", "l", "i", "o", "n">> }

(* Numerals of the test suite and of the parser's error messages. *)
NumeralExamples ==
    { <<"s", "i", "x", " ", "t", "h", "o", "u", "s", "a", "n", "d", " ", "t", "w", "e", "n", "t", "y", " ", "t", "h", "o", "u", "s", "a", "n", "d", " ", "t", "e", "n">>,
      <<"s", "i", "x", " ", "t", "h", "o", "u", "s", "a", "n", "d", " ", "f", "o", "u", "r", "t", "y", "-", "f", "o", "u", "r", " ", "m", "i", "l", "l", "i", "o", "n">>,
      <<"s", "i", "x", " ", "t", "h", "o", "u", "s", "a", "n", "d", " ", "s", "e", "v", "e", "n", "t", "e", "e", "n", " ", "h", "u", "n", "d", "r", "e", "d">>,
      <<"f", "o", "u", "r", " ", "m", "i", "l", "l", "i", "o", "n", " ", "t", "h", "o", "u", "s", "a", "n", "d">>,
      <<"t", "w", "e", "n", "t", "y", " ", "e", "l", "e", "v", "e", "n">>,
      <<"a", " ", "o", "n", "e">>,
      <<"t", "h", "o", "u", "s", "a", "n", "d", " ", "h", "u", "n", "d", "r", "e", "d">>,
      <<"z", "e", "r", "o", " ", "t", "h", "o", "u", "s", "a", "n", "d">>,
      <<"z", "e", "r", "o", " ", "o", "n", "e">>,
      <<"o", "n", "e", " ", "z", "e", "r", "o">>,
      <<"o", "n", "e", " ", "t", "h", "o", "u", "s", "a", "n", "d", " ", "z", "e", "r", "o">>,
      <<"z", "e", "r", "o">>,
      <<"n", "e", "g", "a", "t", "i", "v", "e", " ", "z", "e", "r", "o">>,
      <<"m", "i", "n", "u", "s", " ", "z", "e", "r", "o">>,
      <<"o", "n", "e", " ", "t", "h", "o", "u", "s", "a", "n", "d", " ", "z", "e", "r", "o", " ", "t", "h", "o", "u", "s", "a", "n", "d">>,
      <<"t", "w", "e", "l", "v", "e", " ", "m", "i", "l", "l", "i", "o", "n", " ", "e", "i", "g", "h", "t", "y", "-", "t", "h", "r", "e", "e", " ", "t", "h", "o", "u", "s", "a", "n", "d", " ", "f", "i", "f", "t", "y", "-", "s", "i", "x">>,
      <<"n", "i", "n", "e", " ", "h", "u", "n", "d", "r", "e", "d", " ", "n", "i", "n", "e", "t", "y", "-", "n", "i", "n", "e", " ", "t", "h", "o", "u", "s", "a", "n", "d", " ", "e", "l", "e", "v", "e", "n">>,
      <<"n", "i", "n", "e", "t", "e", "e", "n", " ", "h", "u", "n", "d", "r", "e", "d">>,
      <<"a", " ", "h", "u", "n", "d", "r", "e", "d">>,
      <<"a", " ", "t", "h", "o", "u", "s", "a", "n", "d", " ", "o", "n", "e">>,
      <<"n", "e", "g", "a", "t", "i", "v", "e", " ", "o", "n", "e">>,
      <<"n", "e", "g", "a", "t", "i", "v", "e", " ", "n", "e", "g", "a", "t", "i", "v", "e", " ", "o", "n", "e">>,
      <<"o", "n", "e", " ", "e", "l", "e", "v", "e", "n">>,
      <<"h", "u", "n", "d", "r", "e", "d">> }

(* The words joined by single blanks. *)
RECURSIVE JoinWords(_)
JoinWords(words) ==
    IF words = <<>> THEN <<>>
    ELSE IF Len(words) = 1 THEN words[1]
    ELSE words[1] \o <<" ">> \o JoinWords(Tail(words))

NumeralInputs ==
    { JoinWords(words) : words \in Strings(Vocabulary, MaxTerms) } \cup NumeralExamples

InitNumerals == Construct(DefaultOptions)

NextNumerals ==
    \/ \E s \in NumeralInputs : ToNumber(s)
    \/ Return

SpecNumerals == InitNumerals /\ [][NextNumerals]_vars

-----------------------------------------------------------------------------
(* Reference reading of a numeral's integral part, written from the meaning
   of its words: what each word is worth, where the sub-numerals begin, and
   on which decimal places each word puts its digits. *)

(* What each additive word of the inputs is worth. *)
RefAdditiveValues ==
    << <<<<"z", "e", "r", "o">>, <<"0">>>>,
       <<<<"o", "n", "e">>, <<"1">>>>,
       <<<<"t", "h", "r", "e", "e">>, <<"3">>>>,
       <<<<"f", "o", "u", "r">>, <<"4">>>>,
       <<<<"s", "i", "x">>, <<"6">>>>,
       <<<<"n", "i", "n", "e">>, <<"9">>>>,
       <<<<"t", "e", "n">>, <<"1", "0">>>>,
       <<<<"e", "l", "e", "v", "e", "n">>, <<"1", "1">>>>,
       <<<<"t", "w", "e", "l", "v", "e">>, <<"1", "2">>>>,
       <<<<"s", "e", "v", "e", "n", "t", "e", "e", "n">>, <<"1", "7">>>>,
       <<<<"n", "i", "n", "e", "t", "e", "e", "n">>, <<"1", "9">>>>,
       <<<<"t", "w", "e", "n", "t", "y">>, <<"2", "0">>>>,
       <<<<"f", "o", "u", "r", "t", "y">>, <<"4", "0">>>>,
       <<<<"f", "i", "f", "t", "y">>, <<"5", "0">>>>,
       <<<<"e", "i", "g", "h", "t", "y">>, <<"8", "0">>>>,
       <<<<"n", "i", "n", "e", "t", "y">>, <<"9", "0">>>> >>

(* By how many places each magnitude word of the inputs shifts (the same in both scales). *)
RefMagnitudes ==
    << <<<<"h", "u", "n", "d", "r", "e", "d">>, 2>>,
       <<<<"t", "h", "o", "u", "s", "a", "n", "d">>, 3>>,
       <<<<"m", "i", "l", "l", "i", "o", "n">>, 6>> >>

RECURSIVE RefWordsFrom(_, _)
RefWordsFrom(s, i) ==
    IF i > Len(s) THEN <<>>
    ELSE IF s[i] \in {" ", "-"} THEN RefWordsFrom(s, i + 1)
    ELSE LET ends == { j \in i..Len(s) : j = Len(s) \/ s[j + 1] \in {" ", "-"} }
             j == Min(ends)
         IN  <<SubSeq(s, i, j)>> \o RefWordsFrom(s, j + 1)

RefSignWords == { <<"n","e","g","a","t","i","v","e">>, <<"m","i","n","u","s">> }

(* The words after the leading sign words. *)
RefTerms(s) ==
    LET words == RefWordsFrom(s, 1)
        signed == { k \in 0..Len(words) : \A i \in 1..k : words[i] \in RefSignWords }
    IN  SubSeq(words, Max(signed) + 1, Len(words))

RefSigned(s) ==
    LET words == RefWordsFrom(s, 1)
    IN  words # <<>> /\ words[1] \in RefSignWords

RefListed(table, word) == \E k \in 1..Len(table) : table[k][1] = word

RefLookup(table, word) ==
    table[Min({ k \in 1..Len(table) : table[k][1] = word })][2]

RefIsMagnitude(word) == RefListed(RefMagnitudes, word)

RefShift(word) == IF RefIsMagnitude(word) THEN RefLookup(RefMagnitudes, word) ELSE 0

(* The digits an additive word stands for; the article counts as "one" where
   it opens the numeral. *)
RefDigits(terms, i) ==
    IF i = 1 /\ terms[i] = <<"a">> THEN <<"o", "n", "e">>
    ELSE terms[i]

RefIsAdditive(terms, i) ==
    RefListed(RefAdditiveValues, RefDigits(terms, i))

RefValue(terms, i) == RefLookup(RefAdditiveValues, RefDigits(terms, i))

(* Every word is an additive word or a magnitude. *)
RefKnown(terms) ==
    \A i \in 1..Len(terms) : RefIsAdditive(terms, i) \/ RefIsMagnitude(terms[i])

(* A sub-numeral begins with the first word, and with every additive word
   that follows a magnitude of thousand or more. *)
RefStarts(terms) ==
    { i \in 1..Len(terms) :
        \/ i = 1
        \/ RefIsAdditive(terms, i) /\ RefShift(terms[i - 1]) >= 3 }

(* The last word of the sub-numeral that word i belongs to. *)
RefSubEnd(terms, i) ==
    LET later == { j \in RefStarts(terms) : j > i }
    IN  IF later = {} THEN Len(terms) ELSE Min(later) - 1

(* The first word of the sub-numeral that word i belongs to. *)
RefSubStart(terms, i) == Max({ j \in RefStarts(terms) : j <= i })

RECURSIVE RefShiftSum(_, _, _)
RefShiftSum(terms, lo, hi) ==
    IF lo > hi THEN 0 ELSE RefShift(terms[lo]) + RefShiftSum(terms, lo + 1, hi)

(* The total shift of the sub-numeral that begins with word i. *)
RefTotal(terms, i) == RefShiftSum(terms, i, RefSubEnd(terms, i))

(* The starts of two successive sub-numerals. *)
RefSuccessive(terms) ==
    { p \in RefStarts(terms) \X RefStarts(terms) :
        p[1] < p[2] /\ RefSubEnd(terms, p[1]) + 1 = p[2] }

-----------------------------------------------------------------------------
(* The order of the sub-numerals *)

(* The successive sub-numerals of which the later one's total shift is not
   smaller than the earlier one's. *)
RefOffending(terms) ==
    { p \in RefSuccessive(terms) : RefTotal(terms, p[2]) >= RefTotal(terms, p[1]) }

RefFirstOffending(terms) ==
    CHOOSE p \in RefOffending(terms) : \A q \in RefOffending(terms) : p[1] <= q[1]

(* The exception the order of the first offending pair calls for. *)
RefOrderError(terms) ==
    LET p == RefFirstOffending(terms)
    IN  IF RefTotal(terms, p[2]) = RefTotal(terms, p[1])
        THEN "duplicate_sub_numeral_magnitudes"
        ELSE "incorrect_sub_numeral_order"

(* to_number accepts words lo..hi as a numeral of their own. *)
AcceptedAlone(terms, lo, hi) ==
    to_number(conversion_options, JoinWords(SubSeq(terms, lo, hi))).err = ""

(* The sub-numerals before the first offending one form an acceptable numeral,
   and so does the offending sub-numeral. *)
RefOnlyOrderOffends(terms) ==
    LET p == RefFirstOffending(terms)
    IN  /\ AcceptedAlone(terms, 1, p[2] - 1)
        /\ AcceptedAlone(terms, p[2], RefSubEnd(terms, p[2]))

(* C3, as the code has it: in every numeral to_number accepts the total
   shifts of the successive sub-numerals are strictly decreasing, so a numeral
   with a sub-numeral whose total shift is equal to or greater than that of
   the one before is never accepted; it is rejected as a duplicate magnitude
   (equal) or as out of order (greater) whenever the sub-numerals up to the
   first offending one are acceptable by themselves, and those two errors are
   raised for no other numeral. *)
C3_OrderedSubNumerals ==
    LET terms == RefTerms(call.input)
    IN  (call.op = "to_number" /\ RefKnown(terms)) =>
            /\ call.err = "" =>
                  \A p \in RefSuccessive(terms) : RefTotal(terms, p[2]) < RefTotal(terms, p[1])
            /\ (RefOffending(terms) # {} /\ RefOnlyOrderOffends(terms)) =>
                  call.err = RefOrderError(terms)
            /\ call.err \in {"duplicate_sub_numeral_magnitudes", "incorrect_sub_numeral_order"} =>
                  (RefOffending(terms) # {} /\ call.err = RefOrderError(terms))

(* C3: to_number has rejected "six thousand twenty thousand ten", whose second
   sub-numeral has the total shift of the first, as a duplicate magnitude. *)
C3_DuplicateRejected ==
    /\ call.op = "to_number"
    /\ call.input = <<"s", "i", "x", " ", "t", "h", "o", "u", "s", "a", "n", "d", " ", "t", "w", "e", "n", "t", "y", " ", "t", "h", "o", "u", "s", "a", "n", "d", " ", "t", "e", "n">>
    /\ RefOffending(RefTerms(call.input)) = { <<1, 3>> }
    /\ RefTotal(RefTerms(call.input), 1) = 3
    /\ RefTotal(RefTerms(call.input), 3) = 3
    /\ call.err = "duplicate_sub_numeral_magnitudes"

(* C3, as stated: every numeral with a sub-numeral whose total shift equals
   that of the one before it is rejected as a duplicate magnitude, and every
   one whose total shift is greater as out of order. *)
C3_AlwaysOrderError ==
    LET terms == RefTerms(call.input)
    IN  (call.op = "to_number" /\ RefKnown(terms)) =>
            /\ call.err = "" => RefOffending(terms) = {}
            /\ RefOffending(terms) # {} => call.err = RefOrderError(terms)

-----------------------------------------------------------------------------
(* The decimal places of the terms *)

(* The additive terms of the numeral: the additive words, and 0 for the "one"
   that is implied when the numeral opens with a magnitude. *)
RefAdditiveTerms(terms) ==
    { i \in 1..Len(terms) : RefIsAdditive(terms, i) }
        \cup (IF terms # <<>> /\ RefIsMagnitude(terms[1]) THEN {0} ELSE {})

(* The decimal places on which additive term i puts a non-zero digit: its own
   digits, moved left by the magnitudes that follow it in its sub-numeral. *)
RefPlaces(terms, i) ==
    LET v == IF i = 0 THEN <<"1">> ELSE RefValue(terms, i)
        offset == RefShiftSum(terms, i + 1, RefSubEnd(terms, IF i = 0 THEN 1 ELSE i))
    IN  { offset + (Len(v) - j) : j \in { k \in 1..Len(v) : v[k] # "0" } }

RefDigitAt(terms, place) ==
    LET on == { i \in RefAdditiveTerms(terms) : place \in RefPlaces(terms, i) }
        i == CHOOSE x \in on : TRUE
        v == IF i = 0 THEN <<"1">> ELSE RefValue(terms, i)
        offset == RefShiftSum(terms, i + 1, RefSubEnd(terms, IF i = 0 THEN 1 ELSE i))
    IN  IF on = {} THEN "0" ELSE v[Len(v) - (place - offset)]

(* Two terms put a non-zero digit on the same decimal place. *)
RefOverlap(terms) ==
    \E i, j \in RefAdditiveTerms(terms) :
        i < j /\ RefPlaces(terms, i) \cap RefPlaces(terms, j) # {}

(* The digits of a number to_number returned, without sign and separators. *)
PlainDigits(value) == SelectSeq(value, LAMBDA c : c \in DigitChars)

(* C4, as the code has it: to_number never returns a digit string for a
   numeral in which two terms put a non-zero digit on the same decimal place;
   the overlap error is raised only for such numerals; and in the number
   returned for an accepted numeral every place holds the digit of the one
   term that occupies it, or 0. *)
C4_NoOverlapReturned ==
    LET terms == RefTerms(call.input)
        digits == PlainDigits(call.value)
    IN  (call.op = "to_number" /\ RefKnown(terms)) =>
            /\ RefOverlap(terms) => call.err # ""
            /\ call.err = "overlap" => RefOverlap(terms)
            /\ (call.err = "" /\ terms # <<>>) =>
                  /\ \A i \in RefAdditiveTerms(terms) :
                        \A place \in RefPlaces(terms, i) : place < Len(digits)
                  /\ \A place \in 0..(Len(digits) - 1) :
                        digits[Len(digits) - place] = RefDigitAt(terms, place)

(* C4: to_number has refused "twenty eleven", both words of which occupy the
   tens place, with the overlap error. *)
C4_OverlapRefused ==
    /\ call.op = "to_number"
    /\ call.input = <<"t", "w", "e", "n", "t", "y", " ", "e", "l", "e", "v", "e", "n">>
    /\ RefPlaces(RefTerms(call.input), 1) \cap RefPlaces(RefTerms(call.input), 2) = {1}
    /\ call.err = "overlap"

(* C4, as stated: every numeral in which two terms put a non-zero digit on the
   same decimal place fails with the overlap error. *)
C4_AlwaysOverlapError ==
    LET terms == RefTerms(call.input)
    IN  (call.op = "to_number" /\ RefKnown(terms) /\ RefOverlap(terms)) =>
            call.err = "overlap"

-----------------------------------------------------------------------------
(* The order of the magnitudes inside a sub-numeral *)

(* Inside one sub-numeral a magnitude has a smaller shift than the magnitude
   that precedes it. *)
RefLowerFollows(terms) ==
    \E i, j \in 1..Len(terms) :
        /\ i < j
        /\ RefIsMagnitude(terms[i]) /\ RefIsMagnitude(terms[j])
        /\ \A k \in (i + 1)..(j - 1) : ~RefIsMagnitude(terms[k])
        /\ RefSubStart(terms, i) = RefSubStart(terms, j)
        /\ RefShift(terms[j]) < RefShift(terms[i])

(* The shift the next magnitude after word k is compared with: that of the
   last magnitude of the sub-numeral word k belongs to, 0 if it has none yet. *)
RefComparisonValue(terms, k) ==
    LET magnitudes == { i \in RefSubStart(terms, k)..k : RefIsMagnitude(terms[i]) }
    IN  IF magnitudes = {} THEN 0 ELSE RefShift(terms[Max(magnitudes)])

(* C5: to_number rejects every numeral in which, inside one sub-numeral, a
   magnitude has a smaller shift than the magnitude before it, and raises that
   error for no other numeral; in every accepted numeral the shifts inside
   each sub-numeral are non-decreasing; and after every word the parser has
   taken, last_multiplicative_shift is the shift of the last magnitude of the
   current sub-numeral, 0 when the sub-numeral has none yet: it is reset
   exactly where a new sub-numeral starts. *)
C5_MagnitudesNonDecreasing ==
    LET terms == RefTerms(call.input)
    IN  (call.op = "to_number" /\ RefKnown(terms)) =>
            /\ RefLowerFollows(terms) => call.err # ""
            /\ call.err = "lower_multiplicative_term_follows_higher" => RefLowerFollows(terms)
            /\ \A k \in 1..Len(terms) :
                  LET st == integral_number_state(JoinWords(SubSeq(terms, 1, k)),
                                                  conversion_options)
                  IN  st.err = "" => st.last_multiplicative_shift = RefComparisonValue(terms, k)

(* C5: to_number has rejected "four million thousand", in which "thousand"
   follows "million" inside one sub-numeral. *)
C5_LowerMagnitudeRejected ==
    /\ call.op = "to_number"
    /\ call.input = <<"f", "o", "u", "r", " ", "m", "i", "l", "l", "i", "o", "n", " ", "t", "h", "o", "u", "s", "a", "n", "d">>
    /\ RefLowerFollows(RefTerms(call.input))
    /\ call.err = "lower_multiplicative_term_follows_higher"

-----------------------------------------------------------------------------
(* "zero" *)

(* C6: to_number rejects every numeral whose integral part holds "zero"
   together with any other additive term or magnitude, and accepts "zero" as
   the whole integral part, with or without a sign word before it. *)
C6_ZeroOnItsOwn ==
    LET terms == RefTerms(call.input)
        zero == <<"z", "e", "r", "o">>
    IN  (call.op = "to_number" /\ RefKnown(terms)) =>
            /\ (Len(terms) > 1 /\ \E i \in 1..Len(terms) : terms[i] = zero) => call.err # ""
            /\ terms = <<zero>> =>
                  (call.err = "" /\ call.value = (IF RefSigned(call.input) THEN <<"-", "0">> ELSE <<"0">>))

(* C6: to_number was given "one zero" and returned "1". *)
C6_ZeroAfterOneAccepted ==
    /\ call.op = "to_number"
    /\ call.input = <<"o", "n", "e", " ", "z", "e", "r", "o">>
    /\ call.err = ""
    /\ call.value = <<"1">>

-----------------------------------------------------------------------------
(* The magnitude words: to_number over "one <magnitude>" and "two <magnitude>"
   for the three fixed magnitudes and for the -illion and -illiard word of
   every Latin factor up to MaxFactor, under each naming system. *)

MaxFactor == 100

(* The Latin root parse_integral_numeral spells for a factor: the root of the
   table, or the prefix of the ones with the root of the tens. *)
RefHasRoot(f) ==
    \/ LeftFind(factor_to_root, f) # NotFound
    \/ /\ LeftFind(value_to_prefix, f % 10) # NotFound
       /\ LeftFind(factor_to_root, f - (f % 10)) # NotFound

RefRoot(f) ==
    IF LeftFind(factor_to_root, f) # NotFound
    THEN LeftFind(factor_to_root, f)
    ELSE LeftFind(value_to_prefix, f % 10) \o LeftFind(factor_to_root, f - (f % 10))

RefFactors == { f \in 1..MaxFactor : RefHasRoot(f) }

Multiplicands == { <<"o", "n", "e">>, <<"t", "w", "o">> }

RefMultiplicandDigit(word) == IF word = <<"o", "n", "e">> THEN "1" ELSE "2"

FixedMagnitudes == << <<"h", "u", "n", "d", "r", "e", "d">>, <<"t", "h", "o", "u", "s", "a", "n", "d">>, <<"m", "y", "r", "i", "a", "d">> >>

MagnitudeInputs ==
    { d \o <<" ">> \o FixedMagnitudes[k] : d \in Multiplicands, k \in 1..3 }
        \cup { d \o <<" ">> \o RefRoot(f) \o suffix :
                 d \in Multiplicands, f \in RefFactors, suffix \in {W_illion, W_illiard} }

InitMagnitudes ==
    \E naming_system \in NamingSystems :
        Construct([DefaultOptions EXCEPT !.naming_system = naming_system])

NextMagnitudes ==
    \/ \E s \in MagnitudeInputs : ToNumber(s)
    \/ Return

SpecMagnitudes == InitMagnitudes /\ [][NextMagnitudes]_vars

(* The number d * 10^shift as to_number writes it under the default
   separators. *)
RefPowerOfTen(d, shift) == RefGrouped(<<d>> \o Zeros(shift), ",")

(* to_number returned d * 10^shift. *)
Returned(d, shift) == call.err = "" /\ call.value = RefPowerOfTen(d, shift)

(* C8: "hundred", "thousand", "myriad" shift by 2, 3, 4 places; the -illion
   word of factor f shifts by 3f+3 places in short scale and by 6f in long
   scale, the -illiard word by 6f+3 in long scale; so "one million" is 10^6 in
   both scales, "two billion" is 2*10^9 in short and 2*10^12 in long scale,
   and long-scale "one milliard" is 10^9. *)
C8_MagnitudeShifts ==
    LET short == conversion_options.naming_system = "short_scale"
        long == conversion_options.naming_system = "long_scale"
    IN  call.op = "to_number" =>
            /\ \A w \in Multiplicands :
                  LET d == RefMultiplicandDigit(w)
                  IN  /\ \A k \in 1..3 :
                            call.input = w \o <<" ">> \o FixedMagnitudes[k] => Returned(d, k + 1)
                      /\ \A f \in RefFactors :
                            /\ (short /\ call.input = w \o <<" ">> \o RefRoot(f) \o W_illion)
                                  => Returned(d, 3 * f + 3)
                            /\ (long /\ call.input = w \o <<" ">> \o RefRoot(f) \o W_illion)
                                  => Returned(d, 6 * f)
                            /\ (long /\ call.input = w \o <<" ">> \o RefRoot(f) \o W_illiard)
                                  => Returned(d, 6 * f + 3)
            /\ ((short \/ long) /\ call.input = <<"o", "n", "e", " ", "m", "i", "l", "l", "i", "o", "n">>)
                  => (call.err = "" /\ call.value = <<"1", ",", "0", "0", "0", ",", "0", "0", "0">>)
            /\ (short /\ call.input = <<"t", "w", "o", " ", "b", "i", "l", "l", "i", "o", "n">>)
                  => (call.err = "" /\ call.value = <<"2", ",", "0", "0", "0", ",", "0", "0", "0", ",", "0", "0", "0">>)
            /\ (long /\ call.input = <<"t", "w", "o", " ", "b", "i", "l", "l", "i", "o", "n">>)
                  => (call.err = "" /\ call.value = <<"2", ",", "0", "0", "0", ",", "0", "0", "0", ",", "0", "0", "0", ",", "0", "0", "0">>)
            /\ (long /\ call.input = <<"o", "n", "e", " ", "m", "i", "l", "l", "i", "a", "r", "d">>)
                  => (call.err = "" /\ call.value = <<"1", ",", "0", "0", "0", ",", "0", "0", "0", ",", "0", "0", "0">>)

(* C8: under the long scale to_number has read "two quattuordecilliard", the
   -illiard word of factor 14, as 2 * 10^87. *)
C8_LongScaleComposite ==
    /\ call.op = "to_number"
    /\ conversion_options.naming_system = "long_scale"
    /\ call.input = <<"t", "w", "o", " ", "q", "u", "a", "t", "t", "u", "o", "r", "d", "e", "c", "i", "l", "l", "i", "a", "r", "d">>
    /\ call.input = <<"t", "w", "o", " ">> \o RefRoot(14) \o W_illiard
    /\ Returned("2", 87)

(* A word of the numeral ends in "illiard". *)
RefHasLongScaleTerm(s) ==
    LET words == RefWordsFrom(s, 1)
    IN  \E i \in 1..Len(words) : EndsWith(words[i], W_illiard)

(* C7: while naming_system is not long_scale, to_number on a numeral with a
   word ending in "illiard" fails, and the error the caller gets is the one
   that says long scale terms are used although the naming system is not the
   long scale. *)
C7_LongScaleTermError ==
    (/\ call.op = "to_number"
     /\ conversion_options.naming_system # "long_scale"
     /\ RefHasLongScaleTerm(call.input))
        => call.err = "long_scale_term_but_not_long_scale"

(* C7: under the short scale to_number was given "one milliard", and the error
   it raised calls "milliard" an invalid term. *)
C7_MilliardNotAValidTerm ==
    /\ call.op = "to_number"
    /\ conversion_options.naming_system = "short_scale"
    /\ call.input = <<"o", "n", "e", " ", "m", "i", "l", "l", "i", "a", "r", "d">>
    /\ find_multiplicative_shift(<<"m", "i", "l", "l", "i", "a", "r", "d">>, conversion_options).err
          = "long_scale_term_but_not_long_scale"
    /\ call.err = "not_a_valid_term"

(* While naming_system is not long_scale, a numeral with a word ending in
   "illiard" is never accepted. *)
LongScaleTermRefused ==
    (/\ call.op = "to_number"
     /\ conversion_options.naming_system # "long_scale"
     /\ RefHasLongScaleTerm(call.input))
        => call.err # ""

-----------------------------------------------------------------------------
(* The ceiling of to_numeral: integral numbers of 1 to MaxDigits digits under
   each naming system: of every length the smallest number and the largest
   with one significant digit, and of every sixth length and the one after it
   the largest number of that length. *)

MaxDigits == 610

CeilingInputs ==
    { <<lead>> \o Zeros(size - 1) : lead \in {"1", "9"}, size \in 1..MaxDigits }
        \cup { Repeat("9", size) : size \in { s \in 1..MaxDigits : s % 6 \in {0, 1} } }

InitCeiling ==
    \E naming_system \in NamingSystems :
        Construct([DefaultOptions EXCEPT !.naming_system = naming_system])

NextCeiling ==
    \/ \E n \in CeilingInputs : ToNumeral(n)
    \/ Return

SpecCeiling == InitCeiling /\ [][NextCeiling]_vars

(* The input is a number of that many digits, written without leading zeros,
   separators, fraction or exponent. *)
RefPlainInteger(s) == s # <<>> /\ s[1] # "0" /\ IsDigitString(s)

(* The most digits a number to_numeral spells can have: 306 under the short
   scale (below 10^306), 606 otherwise (below 10^606). *)
RefCeilingDigits(options) == IF options.naming_system = "short_scale" THEN 306 ELSE 606

(* C9, as the code has it: to_numeral converts every integral number below
   10^306 under the short scale and below 10^606 under the long scale (and
   under an undefined naming system, which it treats as the long scale); every
   number from there on needs a Latin factor above 100 for its leading group
   and fails with the unsupported-magnitude error. *)
C9_Ceiling ==
    (call.op = "to_numeral" /\ RefPlainInteger(call.input)) =>
        IF Len(call.input) <= RefCeilingDigits(conversion_options)
        THEN call.err = "" /\ call.value # <<>>
        ELSE call.err = "unsupported_magnitude"

(* C9: under the short scale to_numeral has spelled 10^305, a number above
   10^304 - 1, as "one hundred centillion". *)
C9_HundredCentillion ==
    /\ call.op = "to_numeral"
    /\ conversion_options.naming_system = "short_scale"
    /\ call.input = <<"1">> \o Zeros(305)
    /\ call.err = ""
    /\ call.value = <<"o", "n", "e", " ", "h", "u", "n", "d", "r", "e", "d", " ", "c", "e", "n", "t", "i", "l", "l", "i", "o", "n">>

(* C9, as stated: the largest number to_numeral converts is 10^304 - 1 under
   the short scale and 10^601 - 1 under the long scale; every number up to
   there is converted and every number above it fails with the
   unsupported-magnitude error. *)
C9_CeilingAsStated ==
    (/\ call.op = "to_numeral"
     /\ conversion_options.naming_system \in {"short_scale", "long_scale"}
     /\ RefPlainInteger(call.input)) =>
        IF Len(call.input) <= (IF conversion_options.naming_system = "short_scale"
                               THEN 304 ELSE 601)
        THEN call.err = "" /\ call.value # <<>>
        ELSE call.err = "unsupported_magnitude"

-----------------------------------------------------------------------------
(* The integral part of the accepted number n is effectively zero and a
   fractional part follows: once the power of ten is applied no non-zero digit
   is left of the decimal point and at least one digit is right of it. *)
RefZeroIntegral(n, options) ==
    LET r == RefResolved(n, options)
    IN  r.integral = <<>> /\ r.fractional # <<>>

(* C10: with force_leading_zero on, to_numeral of every accepted number whose
   integral part is effectively zero (absent, "0", or emptied by the exponent)
   spells the integral part as "zero" directly before "point", after
   "negative" when the number is negative. *)
C10_ZeroBeforePoint ==
    (/\ call.op = "to_numeral"
     /\ conversion_options.force_leading_zero
     /\ Accepted(call.input)
     /\ RefZeroIntegral(call.input, conversion_options)) =>
        /\ call.err = ""
        /\ StartsWith(call.value,
                      IF RefNegative(call.input)
                      THEN <<"n", "e", "g", "a", "t", "i", "v", "e", " ", "z", "e", "r", "o", " ", "p", "o", "i", "n", "t", " ">>
                      ELSE <<"z", "e", "r", "o", " ", "p", "o", "i", "n", "t", " ">>)

(* C10: with force_leading_zero on, to_numeral has spelled the accepted
   number ".5", whose integral part is absent, as "point five" with no "zero"
   before "point". *)
C10_AbsentIntegralUnspelled ==
    /\ call.op = "to_numeral"
    /\ conversion_options.force_leading_zero
    /\ call.input = <<".", "5">>
    /\ Accepted(call.input)
    /\ call.err = ""
    /\ call.value = <<"p", "o", "i", "n", "t", " ", "f", "i", "v", "e">>

-----------------------------------------------------------------------------
(* The words of a numeral between the leading "negative" and the first
   "point": the integral numeral it spells. *)
RefIntegralWords(numeral) ==
    LET words == RefWordsFrom(numeral, 1)
        from == IF words # <<>> /\ words[1] = W_negative THEN 2 ELSE 1
        points == { k \in from..Len(words) : words[k] = W_point }
        to == IF points = {} THEN Len(words) ELSE Min(points) - 1
    IN  SubSeq(words, from, to)

(* The integral part extract_number_parts hands to to_numeral for the input. *)
ExtractedIntegral(input) ==
    extract_number_parts(conversion_options, number_patterns, input).integral_part

(* C11: to_numeral spells the integral part if and only if the integral part
   exists and it is not "0" or force_leading_zero is set, whatever the sign of
   the number. *)
C11_IntegralSpelledIff ==
    (call.op = "to_numeral" /\ Accepted(call.input) /\ call.err = "") =>
        (RefIntegralWords(call.value) # <<>>
            <=> /\ ExtractedIntegral(call.input) # <<>>
                /\ \/ ExtractedIntegral(call.input) # <<"0">>
                   \/ conversion_options.force_leading_zero)

(* C11: with force_leading_zero off, to_numeral has spelled the "0" before
   the point of the negative number "-0.5": "negative zero point five". *)
C11_NegativeZeroSpelled ==
    /\ call.op = "to_numeral"
    /\ ~conversion_options.force_leading_zero
    /\ call.input = <<"-", "0", ".", "5">>
    /\ call.err = ""
    /\ call.value = <<"n", "e", "g", "a", "t", "i", "v", "e", " ", "z", "e", "r", "o", " ", "p", "o", "i", "n", "t", " ", "f", "i", "v", "e">>

(* With force_leading_zero off, to_numeral never spells an integral part "0"
   of a number that is not negative. *)
UnsignedZeroUnspelled ==
    (/\ call.op = "to_numeral"
     /\ ~conversion_options.force_leading_zero
     /\ Accepted(call.input)
     /\ ~RefNegative(call.input)
     /\ ExtractedIntegral(call.input) = <<"0">>) =>
        call.err = "" /\ RefIntegralWords(call.value) = <<>>

-----------------------------------------------------------------------------
(* Integral numbers group by group: every digit string of up to one group of
   three digits, and longer numbers made of a leading group and further groups
   of three digits that cover an empty group, a teen, a direct and a compound
   tens/ones pair and a hundreds digit alone. *)
GroupSize == 3

MaxGroups == 2

GroupLeads == { <<"1">>, <<"2", "1">>, <<"9", "9", "9">> }

GroupTails == { <<"0", "0", "0">>, <<"0", "0", "7">>, <<"0", "1", "1">>, <<"0", "4", "0">>, <<"3", "0", "0">>, <<"4", "2", "1">> }

RECURSIVE GroupTailsOf(_)
GroupTailsOf(n) ==
    IF n = 0 THEN { <<>> }
    ELSE { g \o rest : g \in GroupTails, rest \in GroupTailsOf(n - 1) }

GroupInputs ==
    { s \in Strings({ Digits[k] : k \in 1..10 }, GroupSize) : s # <<>> }
        \cup { lead \o rest : lead \in GroupLeads,
                              rest \in UNION { GroupTailsOf(n) : n \in 1..MaxGroups } }

InitGroups == Construct(DefaultOptions)

NextGroups ==
    \/ \E n \in GroupInputs : ToNumeral(n)
    \/ Return

SpecGroups == InitGroups /\ [][NextGroups]_vars

RefOnes ==
    << <<"o", "n", "e">>, <<"t", "w", "o">>, <<"t", "h", "r", "e", "e">>, <<"f", "o", "u", "r">>, <<"f", "i", "v", "e">>,
       <<"s", "i", "x">>, <<"s", "e", "v", "e", "n">>, <<"e", "i", "g", "h", "t">>, <<"n", "i", "n", "e">> >>

RefTeens ==
    << <<"t", "e", "n">>, <<"e", "l", "e", "v", "e", "n">>, <<"t", "w", "e", "l", "v", "e">>, <<"t", "h", "i", "r", "t", "e", "e", "n">>, <<"f", "o", "u", "r", "t", "e", "e", "n">>,
       <<"f", "i", "f", "t", "e", "e", "n">>, <<"s", "i", "x", "t", "e", "e", "n">>, <<"s", "e", "v", "e", "n", "t", "e", "e", "n">>, <<"e", "i", "g", "h", "t", "e", "e", "n">>, <<"n", "i", "n", "e", "t", "e", "e", "n">> >>

RefTens ==
    << <<"t", "e", "n">>, <<"t", "w", "e", "n", "t", "y">>, <<"t", "h", "i", "r", "t", "y">>, <<"f", "o", "u", "r", "t", "y">>, <<"f", "i", "f", "t", "y">>,
       <<"s", "i", "x", "t", "y">>, <<"s", "e", "v", "e", "n", "t", "y">>, <<"e", "i", "g", "h", "t", "y">>, <<"n", "i", "n", "e", "t", "y">> >>

RefGroupMagnitudes ==
    << <<"t", "h", "o", "u", "s", "a", "n", "d">>, <<"m", "i", "l", "l", "i", "o", "n">>, <<"b", "i", "l", "l", "i", "o", "n">>, <<"t", "r", "i", "l", "l", "i", "o", "n">>, <<"q", "u", "a", "d", "r", "i", "l", "l", "i", "o", "n">> >>

(* The words of a tens/ones pair: nothing for 00, the direct base term when
   there is one, otherwise "<tens word>-<ones word>". *)
RefPairWords(t, o) ==
    IF t = 0 /\ o = 0 THEN <<>>
    ELSE IF t = 0 THEN << RefOnes[o] >>
    ELSE IF t = 1 THEN << RefTeens[o + 1] >>
    ELSE IF o = 0 THEN << RefTens[t] >>
    ELSE << RefTens[t] \o <<"-">> \o RefOnes[o] >>

(* The words of a group of three digits: "<digit word> hundred" for a
   non-zero hundreds digit, then the words of the pair. *)
RefGroupWords(h, t, o) ==
    (IF h = 0 THEN <<>> ELSE << RefOnes[h], W_hundred >>) \o RefPairWords(t, o)

(* The words of the groups of digit string s (a multiple of three digits
   long) from group g on: a group of three zeros contributes nothing, any
   other group its words and the magnitude word of its rank. *)
RECURSIVE RefGroupsFrom(_, _)
RefGroupsFrom(s, g) ==
    LET groups == Len(s) \div 3
        rank == groups - g
        at == 3 * (g - 1)
        words == RefGroupWords(DigitValue(s[at + 1]), DigitValue(s[at + 2]),
                               DigitValue(s[at + 3]))
    IN  IF g > groups THEN <<>>
        ELSE (IF words = <<>> THEN <<>>
              ELSE IF rank = 0 THEN words
              ELSE words \o << RefGroupMagnitudes[rank] >>)
             \o RefGroupsFrom(s, g + 1)

(* The numeral of integral digit string s, "zero" for "0". *)
RefSpelledIntegral(s) ==
    IF s = <<"0">> THEN <<"z", "e", "r", "o">>
    ELSE JoinWords(RefGroupsFrom(Zeros((3 - (Len(s) % 3)) % 3) \o s, 1))

(* C12: to_numeral spells an integral number group by group: "<digit word>
   hundred" for a non-zero hundreds digit, the direct base term or
   "<tens word>-<ones word>" for the tens/ones pair, nothing for a 00 pair, no
   ones word after a two-digit base term, and neither words nor a magnitude
   word for a group of three zeros. *)
C12_GroupsSpelled ==
    (call.op = "to_numeral" /\ IsDigitString(call.input)) =>
        call.err = "" /\ call.value = RefSpelledIntegral(call.input)

(* C12: to_numeral has spelled 21,000,011, a number with a compound pair, a
   group of three zeros and a teen: "twenty-one million eleven". *)
C12_EmptyGroupSkipped ==
    /\ call.op = "to_numeral"
    /\ call.input = <<"2", "1", "0", "0", "0", "0", "1", "1">>
    /\ call.value = <<"t", "w", "e", "n", "t", "y", "-", "o", "n", "e", " ", "m", "i", "l", "l", "i", "o", "n", " ", "e", "l", "e", "v", "e", "n">>

-----------------------------------------------------------------------------
(* Numerals by their opening: optional sign words, then nothing, the article
   or "one", then up to MaxFollowing words. *)
MaxFollowing == 3

LeadingSigns == { <<>>, << W_negative >>, << W_minus >>, << W_negative, W_minus >> }

LeadingWords == { <<>>, << W_a >>, << <<"o", "n", "e">> >> }

FollowingWords ==
    { <<"z", "e", "r", "o">>, <<"o", "n", "e">>, <<"t", "w", "e", "n", "t", "y">>, W_hundred, W_thousand, <<"m", "i", "l", "l", "i", "o", "n">> }

LeadingInputs ==
    { JoinWords(signs \o lead \o rest) :
        signs \in LeadingSigns, lead \in LeadingWords,
        rest \in { w \in Strings(FollowingWords, MaxFollowing) : w # <<>> } }

InitLeading == Construct(DefaultOptions)

NextLeading ==
    \/ \E numeral \in LeadingInputs : ToNumber(numeral)
    \/ Return

SpecLeading == InitLeading /\ [][NextLeading]_vars

(* The numeral s with "one" put before its first word after the sign words,
   or in the place of the article there. *)
RefWithOne(s) ==
    LET words == RefWordsFrom(s, 1)
        terms == RefTerms(s)
        signs == SubSeq(words, 1, Len(words) - Len(terms))
    IN  JoinWords(signs \o << <<"o", "n", "e">> >>
                        \o (IF terms[1] = W_a THEN Tail(terms) ELSE terms))

(* The first word after the sign words is a magnitude, or it is the article
   and a magnitude follows it. *)
RefOpensWithMagnitude(s) ==
    LET terms == RefTerms(s)
    IN  /\ terms # <<>>
        /\ \/ RefIsMagnitude(terms[1])
           \/ Len(terms) >= 2 /\ terms[1] = W_a /\ RefIsMagnitude(terms[2])

(* The local variables of parse_integral_number after the first k words of
   numeral s. *)
RefLoopedOver(s, k) ==
    integral_number_state(JoinWords(SubSeq(RefWordsFrom(s, 1), 1, k)), conversion_options)

(* Once a word after the sign words has been processed, a group is open or
   completed for the rest of the numeral, so no later term gets the implicit 1. *)
RefImplicitOneOnlyFirst(s) ==
    LET words == RefWordsFrom(s, 1)
        signs == Len(words) - Len(RefTerms(s))
    IN  \A k \in (signs + 1)..Len(words) :
            RefLoopedOver(s, k).err = "" =>
                \/ RefLoopedOver(s, k).groups # <<>>
                \/ RefLoopedOver(s, k).current_group # <<>>

(* C13: a numeral that opens (after its sign words) with a magnitude, or with
   the article before a magnitude, is parsed as the numeral with "one" in that
   place; "hundred", "a hundred" and "one hundred" give "100"; and the implicit
   1 is inserted only before the first term, while no group is open or
   completed. *)
C13_ImplicitOne ==
    call.op = "to_number" =>
        /\ RefOpensWithMagnitude(call.input) =>
              /\ call.err = to_number(conversion_options, RefWithOne(call.input)).err
              /\ call.value = to_number(conversion_options, RefWithOne(call.input)).value
        /\ call.input \in { <<"h", "u", "n", "d", "r", "e", "d">>, <<"a", " ", "h", "u", "n", "d", "r", "e", "d">>, <<"o", "n", "e", " ", "h", "u", "n", "d", "r", "e", "d">> } =>
              call.err = "" /\ call.value = <<"1", "0", "0">>
        /\ RefImplicitOneOnlyFirst(call.input)

(* C13: to_number has read "minus thousand twenty", a numeral that opens with
   a magnitude after a sign word, as -1,020. *)
C13_MagnitudeFirst ==
    /\ call.op = "to_number"
    /\ call.input = <<"m", "i", "n", "u", "s", " ", "t", "h", "o", "u", "s", "a", "n", "d", " ", "t", "w", "e", "n", "t", "y">>
    /\ call.err = ""
    /\ call.value = <<"-", "1", ",", "0", "2", "0">>

-----------------------------------------------------------------------------
(* Numerals with the word "point": up to MaxPointTerms words out of a sign
   word, "point", two digit words and a numeric token, and the decimals of the
   test suite, under both separator conventions and both settings of
   force_leading_zero. *)
MaxPointTerms == 4

PointVocabulary == { W_point, W_negative, <<"o", "n", "e">>, <<"s", "i", "x">>, <<"1", "2">> }

PointExamples ==
    { <<"p", "o", "i", "n", "t", " ", "z", "e", "r", "o", " ", "s", "i", "x", " ", "t", "w", "o", " ", "f", "i", "v", "e">>, <<"o", "n", "e", "p", "o", "i", "n", "t", " ", "s", "i", "x">>, <<"o", "n", "e", " ", "p", "o", "i", "n", "t", " ", " ", "s", "i", "x">>,
      <<"t", "w", "e", "n", "t", "y", "-", "p", "o", "i", "n", "t", " ", "s", "i", "x">>, <<"p", "o", "i", "n", "t", " ", "e", "l", "e", "v", "e", "n">>, <<"o", "n", "e", " ", "h", "u", "n", "d", "r", "e", "d", " ", "p", "o", "i", "n", "t", " ", "z", "e", "r", "o", " ", "o", "n", "e">> }

PointInputs ==
    { JoinWords(words) : words \in Strings(PointVocabulary, MaxPointTerms) } \cup PointExamples

PointOptions ==
    { [options EXCEPT !.force_leading_zero = force_leading_zero] :
        options \in {EnglishOptions, GermanOptions}, force_leading_zero \in BOOLEAN }

InitPoint == \E options \in PointOptions : Construct(options)

NextPoint ==
    \/ \E numeral \in PointInputs : ToNumber(numeral)
    \/ Return

SpecPoint == InitPoint /\ [][NextPoint]_vars

(* The places k where s[k..] begins with "point " and the word "point"
   begins: the occurrences of "point" as a separator. *)
RefPointSeparators(s) ==
    { k \in 1..(Len(s) - 5) :
        /\ SubSeq(s, k, k + 5) = W_point \o <<" ">>
        /\ k = 1 \/ s[k - 1] \in {" ", "-"} }

(* The numeral before the separator at k and the words after it. *)
RefIntegralSide(s, k) == IF k <= 2 THEN <<>> ELSE SubSeq(s, 1, k - 2)

RefFractionTerms(s, k) == RefWordsFrom(s, k + 6)

(* The integral digits of a decimal: those of the integral side, "0" when the
   side is empty. *)
RefIntegralDigitsOf(side) ==
    IF side = <<>> THEN <<"0">> ELSE to_number(conversion_options, side).value

(* The digits after the decimal separator symbol of a result. *)
RefAfterSeparator(value) ==
    SubSeq(value, IndexOf(value, conversion_options.decimal_separator_symbol) + 1, Len(value))

(* The digits a fractional term stands for: the digit of a digit word, the
   digits of a numeric token as they are. *)
RefFractionDigits(term) ==
    IF IsDigitString(term) THEN term
    ELSE IF term = <<"z", "e", "r", "o">> THEN <<"0">>
    ELSE IF \E d \in 1..9 : RefOnes[d] = term
    THEN << Digits[(CHOOSE d \in 1..9 : RefOnes[d] = term) + 1] >>
    ELSE <<>>

RECURSIVE RefFractionOf(_)
RefFractionOf(terms) ==
    IF terms = <<>> THEN <<>>
    ELSE RefFractionDigits(Head(terms)) \o RefFractionOf(Tail(terms))

(* The result is the integral digits, the configured decimal separator and
   the digits of the terms, in their order. *)
RefDecimalOf(value, side, terms) ==
    value = RefIntegralDigitsOf(side) \o <<conversion_options.decimal_separator_symbol>>
                \o RefFractionOf(terms)

(* What the code does: a numeral with more than one separating "point" is
   rejected; with exactly one, a result is the integral digits ("0" for an
   empty integral side, whatever force_leading_zero is), the configured decimal
   separator, and then, in order, one digit for every fractional term that is a
   word and all the digits of every fractional term that is a numeric token. *)
DigitsPerTermAsCoded ==
    call.op = "to_number" =>
        /\ Cardinality(RefPointSeparators(call.input)) > 1 => call.err # ""
        /\ (Cardinality(RefPointSeparators(call.input)) = 1 /\ call.err = "") =>
              \A k \in RefPointSeparators(call.input) :
                  RefDecimalOf(call.value, RefIntegralSide(call.input, k),
                               RefFractionTerms(call.input, k))

(* C14: to_number has read "point 12", one fractional term, as "0.12" (with the
   configured decimal separator): two digits after the separator. *)
C14_NumericFractionTerm ==
    /\ call.op = "to_number"
    /\ call.input = <<"p", "o", "i", "n", "t", " ", "1", "2">>
    /\ call.err = ""
    /\ RefAfterSeparator(call.value) = <<"1", "2">>

(* C14: to_number rejects a numeral with more than one separating "point";
   with exactly one, a result is the integral digits ("0" for an empty integral
   side), the configured decimal separator and, in order of appearance, exactly
   one digit for each fractional term. *)
C14_OneDigitPerTerm ==
    /\ DigitsPerTermAsCoded
    /\ (/\ call.op = "to_number"
        /\ Cardinality(RefPointSeparators(call.input)) = 1
        /\ call.err = "") =>
           \A k \in RefPointSeparators(call.input) :
               Len(RefAfterSeparator(call.value)) = Len(RefFractionTerms(call.input, k))

-----------------------------------------------------------------------------
(* Results with and without thousands separators: numerals of up to
   MaxSeparatedTerms words that give integral parts of one to ten digits, with
   signs and fractions, and the numbers of the test suite, under both
   separator conventions and both settings of use_thousands_separators. *)
MaxSeparatedTerms == 3

SeparatedVocabulary ==
    { W_negative, W_point, <<"o", "n", "e">>, <<"t", "w", "e", "n", "t", "y">>, W_hundred, W_thousand, <<"m", "i", "l", "l", "i", "o", "n">> }

SeparatedExamples ==
    { <<"t", "w", "e", "l", "v", "e", " ", "m", "i", "l", "l", "i", "o", "n", " ", "e", "i", "g", "h", "t", "y", "-", "t", "h", "r", "e", "e", " ", "t", "h", "o", "u", "s", "a", "n", "d", " ", "f", "i", "f", "t", "y", "-", "s", "i", "x">>,
      <<"n", "i", "n", "e", " ", "h", "u", "n", "d", "r", "e", "d", " ", "n", "i", "n", "e", "t", "y", "-", "n", "i", "n", "e", " ", "t", "h", "o", "u", "s", "a", "n", "d", " ", "e", "l", "e", "v", "e", "n">>,
      <<"n", "e", "g", "a", "t", "i", "v", "e", " ", "o", "n", "e", " ", "t", "h", "o", "u", "s", "a", "n", "d", " ", "p", "o", "i", "n", "t", " ", "o", "n", "e">>,
      <<"m", "i", "n", "u", "s", " ", "t", "w", "e", "n", "t", "y", " ", "m", "i", "l", "l", "i", "o", "n", " ", "o", "n", "e", " ", "h", "u", "n", "d", "r", "e", "d", " ", "t", "h", "o", "u", "s", "a", "n", "d", " ", "p", "o", "i", "n", "t", " ", "z", "e", "r", "o", " ", "s", "i", "x">>,
      <<"1", "2", "3", "4", "5", "6", "7">>, <<"0", "0", "0", "0", " ", "p", "o", "i", "n", "t", " ", "1", "2">>, <<"o", "n", "e", " ", "h", "u", "n", "d", "r", "e", "d", " ", "t", "h", "o", "u", "s", "a", "n", "d", " ", "m", "i", "l", "l", "i", "o", "n">> }

SeparatedInputs ==
    { JoinWords(words) : words \in Strings(SeparatedVocabulary, MaxSeparatedTerms) }
        \cup SeparatedExamples

SeparatedOptions ==
    { [options EXCEPT !.use_thousands_separators = use_thousands_separators] :
        options \in {EnglishOptions, GermanOptions}, use_thousands_separators \in BOOLEAN }

InitSeparated == \E options \in SeparatedOptions : Construct(options)

NextSeparated ==
    \/ \E numeral \in SeparatedInputs : ToNumber(numeral)
    \/ Return

SpecSeparated == InitSeparated /\ [][NextSeparated]_vars

(* The integral part of a result: what stands after the sign and before the
   decimal separator. *)
RefResultIntegral(value) ==
    LET body == IF value # <<>> /\ value[1] = "-" THEN Tail(value) ELSE value
        at == IndexOf(body, conversion_options.decimal_separator_symbol)
    IN  IF at = 0 THEN body ELSE SubSeq(body, 1, at - 1)

RefWithout(s, c) == SelectSeq(s, LAMBDA x : x # c)

(* What the same call gives under the other setting of use_thousands_separators. *)
RefOtherSetting(numeral) ==
    to_number([conversion_options EXCEPT
                  !.use_thousands_separators = ~conversion_options.use_thousands_separators],
              numeral)

(* C15: with use_thousands_separators on, the integral part of a to_number
   result is blocks of three digits from the right, parted by the thousands
   separator symbol, after a leftmost block of one to three digits; with it
   off the result has no thousands separator; and both settings give the same
   sign, digits and fractional part. *)
C15_GroupedFromRight ==
    (call.op = "to_number" /\ call.err = "") =>
        /\ conversion_options.use_thousands_separators =>
              IsGroupedString(RefResultIntegral(call.value),
                              conversion_options.thousands_separator_symbol)
        /\ ~conversion_options.use_thousands_separators =>
              \A i \in 1..Len(call.value) :
                  call.value[i] # conversion_options.thousands_separator_symbol
        /\ RefOtherSetting(call.input).err = ""
        /\ RefWithout(RefOtherSetting(call.input).value,
                      conversion_options.thousands_separator_symbol)
              = RefWithout(call.value, conversion_options.thousands_separator_symbol)

(* C15: with use_thousands_separators on and the default symbols, to_number
   has read "minus twenty million one hundred thousand point zero six" as
   "-20,100,000.06". *)
C15_SignedGroupedDecimal ==
    /\ call.op = "to_number"
    /\ conversion_options = DefaultOptions
    /\ call.input = <<"m", "i", "n", "u", "s", " ", "t", "w", "e", "n", "t", "y", " ", "m", "i", "l", "l", "i", "o", "n", " ", "o", "n", "e", " ", "h", "u", "n", "d", "r", "e", "d", " ", "t", "h", "o", "u", "s", "a", "n", "d", " ", "p", "o", "i", "n", "t", " ", "z", "e", "r", "o", " ", "s", "i", "x">>
    /\ call.value = <<"-", "2", "0", ",", "1", "0", "0", ",", "0", "0", "0", ".", "0", "6">>

-----------------------------------------------------------------------------
(* Inputs to_number has to refuse, and their neighbours: the empty string,
   strings that are no numerals, numerals of sign words only, and numerals of
   up to MaxRefusedTerms words with the unknown word "gazillion" at any place. *)
MaxRefusedTerms == 4

RefusedVocabulary == { W_negative, W_point, <<"o", "n", "e">>, W_hundred, <<"g", "a", "z", "i", "l", "l", "i", "o", "n">> }

RefusedExamples ==
    { <<"@">>, <<"n", "e", "g", "a", "t", "i", "v", "e">>, <<"m", "i", "n", "u", "s">>, <<"n", "e", "g", "a", "t", "i", "v", "e", " ", "m", "i", "n", "u", "s">>, <<"O", "n", "e">>, <<" ", "o", "n", "e">>,
      <<"o", "n", "e", "@">>, <<"o", "n", "e", "-", "-", "o", "n", "e">>, <<"t", "w", "e", "n", "t", "y", " ", "e", "l", "e", "v", "e", "n", " ", "g", "a", "z", "i", "l", "l", "i", "o", "n">>, <<"o", "n", "e", " ", "1", "0", "0">>,
      <<"a", " ", "g", "a", "z", "i", "l", "l", "i", "o", "n">>, <<"a", " ", "h", "u", "n", "d", "r", "e", "d">>,
      <<"g", "a", "z", "i", "l", "l", "i", "o", "n", " ", "p", "o", "i", "n", "t", " ", "o", "n", "e", " ", "p", "o", "i", "n", "t", " ", "o", "n", "e">>, <<"o", "n", "e", " ", "p", "o", "i", "n", "t", " ", " ", "o", "n", "e">> }

RefusedInputs ==
    { JoinWords(words) : words \in Strings(RefusedVocabulary, MaxRefusedTerms) }
        \cup RefusedExamples

InitRefused == Construct(DefaultOptions)

NextRefused ==
    \/ \E numeral \in RefusedInputs : ToNumber(numeral)
    \/ Return

SpecRefused == InitRefused /\ [][NextRefused]_vars

(* The word is an additive term or a multiplicative term. *)
RefKnownWord(word) ==
    RefListed(RefAdditiveValues, word) \/ RefIsMagnitude(word) \/ IsDigitString(word)

(* The numeral is made of sign words only. *)
RefOnlySignWords(s) ==
    LET words == RefWordsFrom(s, 1)
    IN  words # <<>> /\ \A i \in 1..Len(words) : words[i] \in RefSignWords

(* The text of the numeral before its first separating "point", and the words
   after it. *)
RefLeftOfPoint(s) ==
    IF RefPointSeparators(s) = {} THEN s
    ELSE RefIntegralSide(s, Min(RefPointSeparators(s)))

RefRightOfPoint(s) ==
    IF RefPointSeparators(s) = {} THEN <<>>
    ELSE RefFractionTerms(s, Min(RefPointSeparators(s)))

(* The places, among the words left of the point, of the tokens that are
   neither additive nor multiplicative: not the leading sign words, not the
   article that opens the numeral. *)
RefUnknownLeft(s) ==
    LET words == RefWordsFrom(RefLeftOfPoint(s), 1)
        signs == Len(words) - Len(RefTerms(RefLeftOfPoint(s)))
    IN  { i \in (signs + 1)..Len(words) :
            /\ ~RefKnownWord(words[i])
            /\ ~(i = signs + 1 /\ words[i] = W_a) }

RefUnknownRight(s) ==
    { i \in 1..Len(RefRightOfPoint(s)) : ~RefKnownWord(RefRightOfPoint(s)[i]) }

RefHasUnknownToken(s) == RefUnknownLeft(s) # {} \/ RefUnknownRight(s) # {}

(* The parser gets as far as the first unknown token: "point" separates at
   most once, and the words before the token are read without an error. *)
RefReachesUnknown(s) ==
    LET left == RefWordsFrom(RefLeftOfPoint(s), 1)
        right == RefRightOfPoint(s)
        u == Min(RefUnknownLeft(s))
        v == Min(RefUnknownRight(s))
    IN  /\ Cardinality(RefPointSeparators(s)) <= 1
        /\ IF RefUnknownLeft(s) # {}
           THEN \/ u = 1
                \/ integral_number_state(JoinWords(SubSeq(left, 1, u - 1)),
                                         conversion_options).err = ""
           ELSE /\ parse_integral_number(RefLeftOfPoint(s), conversion_options).err = ""
                /\ \A i \in 1..(v - 1) : find_additive_value(right[i], 1, TRUE).err = ""

(* to_number refuses the input: an error and no digit string. *)
RefRefused == call.err # "" /\ call.value = <<>>

(* The empty string, a string is_numeral rejects, a numeral of sign words only
   and a numeral with an unknown token are all refused. *)
RefRefusals ==
    (\/ call.input = <<>>
     \/ ~is_numeral(call.input)
     \/ RefOnlySignWords(call.input)
     \/ RefHasUnknownToken(call.input)) => RefRefused

(* C16: to_number refuses the empty string, every input is_numeral rejects,
   every numeral of sign words only and every numeral with a token that is
   neither additive nor multiplicative; when the parser reaches such a token
   (no earlier word has failed and "point" separates at most once) the error is
   the additive lookup's UnknownTerm error. *)
C16_Refused ==
    call.op = "to_number" =>
        /\ RefRefusals
        /\ (/\ is_numeral(call.input)
            /\ RefHasUnknownToken(call.input)
            /\ RefReachesUnknown(call.input)) => call.err = "not_a_valid_term"

(* C16 as stated: every numeral with a token that is neither additive nor
   multiplicative is refused with the UnknownTerm error. *)
C16_AlwaysUnknownTerm ==
    (/\ call.op = "to_number"
     /\ is_numeral(call.input)
     /\ RefHasUnknownToken(call.input)) => call.err = "not_a_valid_term"

(* C16: to_number has refused "hundred gazillion" with the UnknownTerm error. *)
C16_GazillionRefused ==
    /\ call.op = "to_number"
    /\ call.input = <<"h", "u", "n", "d", "r", "e", "d", " ", "g", "a", "z", "i", "l", "l", "i", "o", "n">>
    /\ call.err = "not_a_valid_term"
    /\ call.value = <<>>

(* An earlier word of the numeral fails first: "twenty eleven gazillion" is
   refused because "eleven" overlaps "twenty". *)
EarlierErrorWins ==
    /\ call.op = "to_number"
    /\ call.input = <<"t", "w", "e", "n", "t", "y", " ", "e", "l", "e", "v", "e", "n", " ", "g", "a", "z", "i", "l", "l", "i", "o", "n">>
    /\ call.err \notin {"", "not_a_valid_term"}

-----------------------------------------------------------------------------
(* to_numeral on strings that are numbers and strings that are not: every
   string of up to MaxUnreadLen characters out of a digit, the two separator
   symbols, the sign and the exponent mark, and the examples of the number
   shapes, under both separator conventions. *)
MaxUnreadLen == 4

UnreadInputs ==
    LET examples == RejectedExamples \cup AcceptedExamples \cup WideExponentExamples
    IN  Strings(ShapeChars, MaxUnreadLen) \cup examples
            \cup { SwapSeparators(s) : s \in examples }

InitUnread == \E options \in {EnglishOptions, GermanOptions} : Construct(options)

NextUnread ==
    \/ \E s \in UnreadInputs : ToNumeral(s)
    \/ Return

SpecUnread == InitUnread /\ [][NextUnread]_vars

(* is_number(input) returns false: it neither returns true nor throws. *)
RefIsNumberFalse(input) ==
    /\ is_number(conversion_options, number_patterns, input).err = ""
    /\ ~is_number(conversion_options, number_patterns, input).value

(* C17: to_numeral returns the empty string and raises nothing whenever its
   input is empty or is_number(input) is false. *)
C17_UnreadUnspelled ==
    (/\ call.op = "to_numeral"
     /\ call.input = <<>> \/ RefIsNumberFalse(call.input)) =>
        call.err = "" /\ call.value = <<>>

(* C17: to_numeral has returned the empty string for "1,11", which is_number
   rejects under the default symbols. *)
C17_MisgroupedUnspelled ==
    /\ call.op = "to_numeral"
    /\ conversion_options = DefaultOptions
    /\ call.input = <<"1", ",", "1", "1">>
    /\ RefIsNumberFalse(call.input)
    /\ call.err = ""
    /\ call.value = <<>>

-----------------------------------------------------------------------------
(* Strings put to is_numeral: every string of up to MaxWordChars characters
   out of a lowercase letter, a digit, an uppercase letter, the space, the
   tab, the line feed and the hyphen, and the words the pre-check is
   described with. *)
MaxWordChars == 4

WordChars == {"a", "1", "A", " ", "\t", "\n", "-"}

WordExamples ==
    { W_negative, W_minus, W_hundred, <<"n", "e", "g", "a", "t", "i", "v", "e", " ", "o", "n", "e">>, <<"m", "i", "n", "u", "s", " ", "m", "i", "n", "u", "s">>,
      <<"t", "w", "e", "n", "t", "y", "-", "o", "n", "e">>, <<"t", "w", "e", "n", "t", "y", " ", "-", " ", "o", "n", "e">>, <<"o", "n", "e", " ", " ", "h", "u", "n", "d", "r", "e", "d">>, <<"o", "n", "e", " ", "h", "u", "n", "d", "r", "e", "d", " ">>,
      <<"1", "e", "3">>, <<"@">>, <<"1", "2", " ", "m", "i", "l", "l", "i", "o", "n">> }

WordInputs == Strings(WordChars, MaxWordChars) \cup WordExamples

InitWords == Construct(DefaultOptions)

NextWords ==
    \/ \E s \in WordInputs : IsNumeral(s)
    \/ Return

SpecWords == InitWords /\ [][NextWords]_vars

(* The maximal runs of s whose characters are (inside = TRUE) or are not
   (inside = FALSE) token characters, as <<first, last>> pairs. *)
RefRuns(s, inside) ==
    LET token(k) == s[k] \in LowerChars \cup DigitChars
    IN  { run \in (1..Len(s)) \X (1..Len(s)) :
            /\ run[1] <= run[2]
            /\ \A k \in run[1]..run[2] : token(k) = inside
            /\ run[1] = 1 \/ token(run[1] - 1) # inside
            /\ run[2] = Len(s) \/ token(run[2] + 1) # inside }

(* s is a non-empty sequence of tokens, each all lowercase letters or all
   digits, with a run of characters of the set blanks, or one hyphen, between
   each two tokens. *)
RefTokenSequence(s, blanks) ==
    /\ s # <<>>
    /\ s[1] \in LowerChars \cup DigitChars
    /\ s[Len(s)] \in LowerChars \cup DigitChars
    /\ \A run \in RefRuns(s, TRUE) :
          \/ \A k \in run[1]..run[2] : s[k] \in LowerChars
          \/ \A k \in run[1]..run[2] : s[k] \in DigitChars
    /\ \A run \in RefRuns(s, FALSE) :
          \/ \A k \in run[1]..run[2] : s[k] \in blanks
          \/ run[1] = run[2] /\ s[run[1]] = "-"

RefLoneSign(s) == s = W_negative \/ s = W_minus

(* C18: is_numeral(s) is true iff s is a non-empty sequence of tokens, each
   all lowercase ASCII letters or all digits, separated by a run of spaces and
   tabs or by one hyphen, and s is not exactly "negative" or "minus"; so
   is_numeral("") is false and a lone "hundred" is accepted. *)
C18_TokenSequence ==
    call.op = "is_numeral" =>
        /\ call.flag <=> (RefTokenSequence(call.input, {" ", "\t"}) /\ ~RefLoneSign(call.input))
        /\ call.input = <<>> => ~call.flag
        /\ call.input = W_hundred => call.flag

(* C18 as stated: the tokens may be separated by any whitespace, a line feed
   included, or by a hyphen. *)
C18_AnyWhitespace ==
    call.op = "is_numeral" =>
        (call.flag <=> (/\ RefTokenSequence(call.input, {" ", "\t", "\n"})
                        /\ ~RefLoneSign(call.input)))

(* C18: is_numeral has accepted two tokens parted by a run of a tab and a
   space. *)
C18_BlankRunAccepted ==
    /\ call.op = "is_numeral"
    /\ call.input = <<"a", "\t", " ", "a">>
    /\ call.flag

(* is_numeral has rejected two tokens parted by a line feed. *)
LineFeedRejected ==
    /\ call.op = "is_numeral"
    /\ call.input = <<"a", "\n", "a">>
    /\ ~call.flag

-----------------------------------------------------------------------------
(* What to_numeral makes of the number the current to_number call returned. *)
RefSpelledBack == to_numeral(conversion_options, number_patterns, call.value)

(* C19: every numeral that to_numeral produces is a fixed point of
   to_numeral(to_number(s)): to_number reads it, and to_numeral spells the
   number it read as the same numeral. *)
C19_ProducedIsFixedPoint ==
    (/\ call.op = "to_number"
     /\ prev.op = "to_numeral"
     /\ call.input # <<>>) =>
        /\ call.err = ""
        /\ RefSpelledBack.err = ""
        /\ RefSpelledBack.value = call.input

(* C19: with force_leading_zero on, to_numeral has produced "point five" for
   ".5"; to_number reads it as "0.5", which to_numeral spells "zero point
   five". *)
C19_PointFiveRespelled ==
    /\ call.op = "to_number"
    /\ prev.op = "to_numeral"
    /\ conversion_options.force_leading_zero
    /\ prev.input = <<".", "5">>
    /\ call.input = <<"p", "o", "i", "n", "t", " ", "f", "i", "v", "e">>
    /\ call.value = <<"0", ".", "5">>
    /\ RefSpelledBack.value = <<"z", "e", "r", "o", " ", "p", "o", "i", "n", "t", " ", "f", "i", "v", "e">>

(* to_numeral has produced "negative point five" for "-.5", and to_number
   refuses that numeral. *)
ProducedNumeralRefused ==
    /\ call.op = "to_number"
    /\ prev.op = "to_numeral"
    /\ prev.input = <<"-", ".", "5">>
    /\ call.input = <<"n", "e", "g", "a", "t", "i", "v", "e", " ", "p", "o", "i", "n", "t", " ", "f", "i", "v", "e">>
    /\ call.err # ""

(* A numeral to_numeral produced from a number with an integral part that is
   not zero is a fixed point. *)
ProducedWithIntegralIsFixedPoint ==
    (/\ call.op = "to_number"
     /\ prev.op = "to_numeral"
     /\ call.input # <<>>
     /\ RefIntegralWords(call.input) # <<>>
     /\ RefIntegralWords(call.input) # << <<"z", "e", "r", "o">> >>) =>
        /\ call.err = ""
        /\ RefSpelledBack.err = ""
        /\ RefSpelledBack.value = call.input

-----------------------------------------------------------------------------
(* One converter used from several threads.  In this specification call holds
   one record per thread, with the thread's position pc inside its call, and
   prev.flag tells that an access to _number_patterns has overlapped a write
   to it: a data race, after which the map and the results are whatever the
   build makes of them.

   A call that reaches get_number_pattern_regex reads the map (find), and on a
   miss compiles the pattern and writes the map (insert); neither is atomic,
   and the function takes no lock.  The options are only changed through
   conversion_options() while no call is in progress. *)
Threads == {"t1", "t2"}

ThreadOps == {"is_number", "to_number", "to_numeral", "convert"}

ThreadInputs == { <<"1">>, <<"o", "n", "e">>, <<"1", "e", "9", "9", "9", "9", "9", "9", "9", "9", "9", "9", "9">> }

IdleThread ==
    [op |-> "none", input |-> <<>>, pc |-> "idle", stage |-> 0,
     err |-> "", value |-> <<>>, flag |-> FALSE]

NotRaced == NoCall

Raced == [NoCall EXCEPT !.flag = TRUE]

InitThreads ==
    /\ conversion_options = DefaultOptions
    /\ number_patterns = get_number_pattern_regex(DefaultOptions, <<>>).patterns
    /\ call = [t \in Threads |-> IdleThread]
    /\ prev = NotRaced

NoCallInProgress == \A t \in Threads : call[t].pc = "idle"

(* conversion_options().thousands_separator_symbol = ...: the caller changes
   the separators between calls. *)
SetSeparators(options) ==
    /\ NoCallInProgress
    /\ options # conversion_options
    /\ conversion_options' = options
    /\ UNCHANGED <<number_patterns, call, prev>>

(* Thread t calls op(input).  to_number does not use the number pattern. *)
BeginCall(t, op, input) ==
    /\ call[t].pc = "idle"
    /\ call' = [call EXCEPT ![t] =
                  [IdleThread EXCEPT !.op = op, !.input = input, !.stage = 1,
                                     !.pc = IF op = "to_number" THEN "run" ELSE "find"]]
    /\ UNCHANGED <<conversion_options, number_patterns, prev>>

(* Another thread is writing the map. *)
OtherWrites(t) == \E u \in Threads \ {t} : call[u].pc = "inserting"

(* Another thread is reading or writing the map. *)
OtherAccesses(t) == \E u \in Threads \ {t} : call[u].pc \in {"finding", "inserting"}

(* _number_patterns.find(key) begins. *)
FindBegin(t) ==
    /\ call[t].pc = "find"
    /\ call' = [call EXCEPT ![t].pc = "finding"]
    /\ prev' = IF OtherWrites(t) THEN Raced ELSE prev
    /\ UNCHANGED <<conversion_options, number_patterns>>

(* find returns: the cached pattern, or end().  After a race either. *)
FindEnd(t) ==
    /\ call[t].pc = "finding"
    /\ \E hit \in BOOLEAN :
          /\ prev = NotRaced => hit = (pattern_key(conversion_options) \in DOMAIN number_patterns)
          /\ call' = [call EXCEPT ![t].pc = IF hit THEN "run" ELSE "compile"]
    /\ UNCHANGED <<conversion_options, number_patterns, prev>>

(* The pattern is compiled and _number_patterns.insert(...) begins. *)
InsertBegin(t) ==
    /\ call[t].pc = "compile"
    /\ call' = [call EXCEPT ![t].pc = "inserting"]
    /\ prev' = IF OtherAccesses(t) THEN Raced ELSE prev
    /\ UNCHANGED <<conversion_options, number_patterns>>

(* insert returns.  After a race the entry may be missing. *)
InsertEnd(t) ==
    /\ call[t].pc = "inserting"
    /\ \/ number_patterns' = get_number_pattern_regex(conversion_options, number_patterns).patterns
       \/ prev = Raced /\ number_patterns' = number_patterns
    /\ call' = [call EXCEPT ![t].pc = "run"]
    /\ UNCHANGED <<conversion_options, prev>>

(* The rest of the call with the pattern in hand.  convert asks is_number
   first and, for a number, goes on to to_numeral, which fetches the pattern
   again. *)
RunCall(t) ==
    LET self == call[t]
        Done(r) ==
            call' = [call EXCEPT ![t] =
                       [self EXCEPT !.pc = "done", !.err = r.err, !.value = r.value]]
        Told(r) ==
            call' = [call EXCEPT ![t] =
                       [self EXCEPT !.pc = "done", !.err = r.err, !.flag = r.value]]
        Asked(r) ==
            IF r.err # "" THEN Done([err |-> r.err, value |-> <<>>])
            ELSE IF r.value THEN call' = [call EXCEPT ![t] = [self EXCEPT !.pc = "find", !.stage = 2]]
            ELSE Done(to_number(conversion_options, self.input))
    IN  /\ self.pc = "run"
        /\ \/ /\ self.op = "is_number"
              /\ Told(is_number(conversion_options, number_patterns, self.input))
           \/ /\ self.op = "to_number"
              /\ Done(to_number(conversion_options, self.input))
           \/ /\ self.op = "to_numeral" \/ (self.op = "convert" /\ self.stage = 2)
              /\ Done(to_numeral(conversion_options, number_patterns, self.input))
           \/ /\ self.op = "convert" /\ self.stage = 1
              /\ Asked(is_number(conversion_options, number_patterns, self.input))
           \/ /\ prev = Raced
              /\ Done([err |-> "undefined_behaviour", value |-> <<>>])
        /\ UNCHANGED <<conversion_options, number_patterns, prev>>

(* The caller of thread t takes the result. *)
ReturnCall(t) ==
    /\ call[t].pc = "done"
    /\ call' = [call EXCEPT ![t] = IdleThread]
    /\ UNCHANGED <<conversion_options, number_patterns, prev>>

NextThreads ==
    \/ \E options \in {EnglishOptions, GermanOptions} : SetSeparators(options)
    \/ \E t \in Threads, op \in ThreadOps, input \in ThreadInputs : BeginCall(t, op, input)
    \/ \E t \in Threads : FindBegin(t)
    \/ \E t \in Threads : FindEnd(t)
    \/ \E t \in Threads : InsertBegin(t)
    \/ \E t \in Threads : InsertEnd(t)
    \/ \E t \in Threads : RunCall(t)
    \/ \E t \in Threads : ReturnCall(t)

SpecThreads == InitThreads /\ [][NextThreads]_vars

(* C20: while the options are only changed between calls, no call writes
   the compiled-pattern cache while another call reads or writes it. *)
C20_NoWriteWhileAccessed ==
    \A t \in Threads : \A u \in Threads \ {t} :
        ~(call[t].pc = "inserting" /\ call[u].pc \in {"finding", "inserting"})

(* C20: after the separators were changed between calls, two is_number calls
   are both inside _number_patterns.insert for the new key. *)
C20_TwoInserts ==
    /\ conversion_options = GermanOptions
    /\ \A t \in Threads : call[t].op = "is_number" /\ call[t].pc = "inserting"
-----------------------------------------------------------------------------
(* The batch harness (demo): main converts a list of inputs with one shared
   converter on threads_count worker threads and prints the conversions.

   In this specification call is the state of main and of its workers:
   pc is main's position ("join", "print", "exited", or "terminated" when an
   exception has left a thread function and std::terminate has ended the
   process), inputs and conversions are the two vectors (slot k of the model
   is index k - 1 of the code), workers[w] is the worker started with
   start_index = w - 1 and holds its loop index i, joined counts the threads
   main has joined, i is main's print loop index, and status is the exit
   status the parent process sees (-1 while there is none).  prev is what an
   observer has seen: handled[k] is the set of workers that wrote slot k,
   printed is the list of conversions written to the output so far, and flag
   tells that some slot was written while a lower slot was still unwritten.

   A conversion_t is modelled with its result in value and, for a failed
   conversion, the name of the message in what; the durations are left out. *)
MaxInputs == 21

MaxJobs == 2

Wide == <<"1", "e", "9", "9", "9", "9", "9", "9", "9", "9", "9", "9", "9">>

BatchPatterns ==
    { << <<"1", "2">> >>,
      << <<"x", "!">> >>,
      << <<"o", "n", "e">>, <<"x", "!">> >>,
      << <<"1">>, <<"o", "n", "e", " ", "o", "n", "e">>, <<"-", "0", ".", "5">>, <<"t", "w", "o", " ", "p", "o", "i", "n", "t", " ", "f", "i", "v", "e">> >>,
      << <<"7">>, Wide, <<"s", "e", "v", "e", "n">> >> }

(* std::vector<conversion_t> conversions(inputs.size()): value-initialised. *)
conversion_t ==
    [input_is_number |-> FALSE, value |-> <<>>, what |-> "", error |-> FALSE]

(* threads_count in main; jobs_count has been clamped to 1..hardware_concurrency. *)
threads_count(inputs_size, jobs_count) ==
    Max({1, Min({inputs_size \div 10, jobs_count})})

(* A loop that advances by one whatever the increment. *)
next_index_by_one(i, increment) == i + 1

(* convert_inputs: i += increment *)
next_index(i, increment) == i + increment

(* return total_failure_count ? total_failure_count : EXIT_SUCCESS: the
   size_t is converted to int (modulo 2^32), and the parent process sees the
   low eight bits of what main returns. *)
exit_status(total_failure_count) == total_failure_count % 256

Batch(inputs, jobs_count) ==
    /\ call = [op |-> "main", pc |-> "join", inputs |-> inputs,
               conversions |-> [k \in 1..Len(inputs) |-> conversion_t],
               workers |-> [w \in 1..threads_count(Len(inputs), jobs_count) |->
                               [i |-> w - 1, pc |-> "loop"]],
               joined |-> 0, i |-> 0, total_failure_count |-> 0, status |-> 0 - 1]
    /\ prev = [handled |-> [k \in 1..Len(inputs) |-> {}], printed |-> <<>>, flag |-> FALSE]

(* main up to the start of the threads, with the default options. *)
InitBatch ==
    /\ conversion_options = DefaultOptions
    /\ number_patterns = get_number_pattern_regex(DefaultOptions, <<>>).patterns
    /\ \E n \in 1..MaxInputs, jobs_count \in 1..MaxJobs, pattern \in BatchPatterns :
          Batch([k \in 1..n |-> pattern[((k - 1) % Len(pattern)) + 1]], jobs_count)

(* One pass of worker w through the loop of convert_inputs: the loop test,
   and for an index inside the vector the classification and conversion of
   inputs[i] and the write of conversions[i].  is_number is called outside
   the try block: what it throws leaves the thread function. *)
ConvertInputs(w) ==
    LET self == call.workers[w]
        slot == self.i + 1
        input == call.inputs[slot]
        Store(conversion) ==
            /\ call' = [call EXCEPT !.conversions[slot] = conversion,
                                    !.workers[w].i = next_index(self.i, Len(call.workers))]
            /\ prev' = [prev EXCEPT !.handled[slot] = @ \cup {w},
                                    !.flag = @ \/ \E k \in 1..(slot - 1) : prev.handled[k] = {}]
        Converted(input_is_number, r) ==
            Store([input_is_number |-> input_is_number, value |-> r.value,
                   what |-> r.err, error |-> r.err # ""])
        Classified(asked) ==
            IF asked.err # ""
            THEN call' = [call EXCEPT !.pc = "terminated"] /\ UNCHANGED prev
            ELSE IF ~asked.value /\ ~is_numeral(input)
            THEN Store([input_is_number |-> FALSE, value |-> <<>>,
                        what |-> "neither_number_nor_numeral", error |-> TRUE])
            ELSE Converted(asked.value, convert(conversion_options, number_patterns, input))
    IN  /\ call.pc = "join"
        /\ w \in DOMAIN call.workers
        /\ self.pc = "loop"
        /\ IF self.i >= Len(call.inputs)
           THEN call' = [call EXCEPT !.workers[w].pc = "done"] /\ UNCHANGED prev
           ELSE Classified(is_number(conversion_options, number_patterns, input))
        /\ UNCHANGED <<conversion_options, number_patterns>>

(* thread.join() for the next thread of the vector returns. *)
Join ==
    /\ call.pc = "join"
    /\ call.workers[call.joined + 1].pc = "done"
    /\ call' = [call EXCEPT !.joined = @ + 1,
                            !.pc = IF call.joined + 1 = Len(call.workers) THEN "print" ELSE @]
    /\ UNCHANGED <<conversion_options, number_patterns, prev>>

(* One pass of main's output loop: conversions[i] is written out and counted. *)
PrintConversion ==
    LET slot == call.i + 1
        conversion == call.conversions[slot]
    IN  /\ call.pc = "print"
        /\ call.i < Len(call.inputs)
        /\ prev' = [prev EXCEPT !.printed =
                       Append(@, [input |-> call.inputs[slot], value |-> conversion.value,
                                  what |-> conversion.what, error |-> conversion.error])]
        /\ call' = [call EXCEPT !.i = @ + 1,
                                !.total_failure_count =
                                    IF conversion.error THEN @ + 1 ELSE @]
        /\ UNCHANGED <<conversion_options, number_patterns>>

(* main returns. *)
Exit ==
    /\ call.pc = "print"
    /\ call.i >= Len(call.inputs)
    /\ call' = [call EXCEPT !.pc = "exited",
                            !.status = exit_status(call.total_failure_count)]
    /\ UNCHANGED <<conversion_options, number_patterns, prev>>

NextBatch ==
    \/ \E w \in 1..MaxJobs : ConvertInputs(w)
    \/ Join
    \/ PrintConversion
    \/ Exit

SpecBatch == InitBatch /\ [][NextBatch]_vars

(* What the harness reports for one input on its own. *)
RefReported(input) ==
    LET Converted(r) == [input |-> input, value |-> r.value, what |-> r.err, error |-> r.err # ""]
    IN  IF ~is_number(conversion_options, number_patterns, input).value /\ ~is_numeral(input)
        THEN [input |-> input, value |-> <<>>, what |-> "neither_number_nor_numeral",
              error |-> TRUE]
        ELSE Converted(convert(conversion_options, number_patterns, input))

(* The worker whose indices are start_index, start_index + T, ... holds slot k. *)
RefWorkerOf(k) == ((k - 1) % Len(call.workers)) + 1

(* C21: with T workers and N inputs, index k is written by the worker with
   start index k mod T and by no other, a worker that has returned has
   written every index of its own, nothing is printed before every worker
   is joined, and what is printed is the conversion of each input in input
   order, complete when main returns. *)
C21_OneWorkerPerIndexPrintedInOrder ==
    /\ \A k \in 1..Len(call.inputs) : prev.handled[k] \subseteq {RefWorkerOf(k)}
    /\ \A k \in 1..Len(call.inputs) :
          call.workers[RefWorkerOf(k)].pc = "done" => prev.handled[k] = {RefWorkerOf(k)}
    /\ prev.printed # <<>> =>
          /\ call.joined = Len(call.workers)
          /\ \A w \in DOMAIN call.workers : call.workers[w].pc = "done"
    /\ Len(prev.printed) <= Len(call.inputs)
    /\ \A j \in 1..Len(prev.printed) : prev.printed[j] = RefReported(call.inputs[j])
    /\ call.pc = "exited" => Len(prev.printed) = Len(call.inputs)

(* C21: two workers have finished a batch of mixed inputs out of input
   order, and main has printed every conversion and returned. *)
C21_PrintedAfterOutOfOrderCompletion ==
    /\ call.pc = "exited"
    /\ Len(call.workers) = 2
    /\ prev.flag
    /\ Len(prev.printed) = Len(call.inputs)
    /\ \E j \in 1..Len(prev.printed) : prev.printed[j].error
    /\ \E j \in 1..Len(prev.printed) : ~prev.printed[j].error

(* C22: no input aborts the batch: the process is never ended by an error
   of one input, and when main returns every input has been reported, an
   input whose classification or conversion raised an error as a failure
   and every other input with its conversion. *)
C22_NoInputAbortsBatch ==
    /\ call.pc # "terminated"
    /\ call.pc = "exited" =>
          /\ Len(prev.printed) = Len(call.inputs)
          /\ \A j \in 1..Len(call.inputs) :
                /\ prev.printed[j].input = call.inputs[j]
                /\ prev.printed[j].error = RefReported(call.inputs[j]).error

(* C22: the exception is_number raised on "1e99999999999" has ended the
   process: nothing is printed, and the input after it, a valid numeral, has
   not been converted. *)
C22_BatchAborted ==
    /\ call.pc = "terminated"
    /\ prev.printed = <<>>
    /\ \E k \in 1..(Len(call.inputs) - 1) :
          /\ call.inputs[k] = Wide
          /\ call.inputs[k + 1] = <<"s", "e", "v", "e", "n">>
          /\ prev.handled[k] = {}
          /\ prev.handled[k + 1] = {}

-----------------------------------------------------------------------------
(* The exit status of the harness: long batches on one worker. *)
MaxBatch == 256

ExitPatterns == { << <<"x", "!">> >>, << <<"1", "2">> >>, << <<"o", "n", "e">>, <<"x", "!">> >> }

InitExit ==
    /\ conversion_options = DefaultOptions
    /\ number_patterns = get_number_pattern_regex(DefaultOptions, <<>>).patterns
    /\ \E n \in {1, 2, MaxBatch - 1, MaxBatch}, pattern \in ExitPatterns :
          Batch([k \in 1..n |-> pattern[((k - 1) % Len(pattern)) + 1]], 1)

SpecExit == InitExit /\ [][NextBatch]_vars

(* The number of inputs of the batch whose conversion fails. *)
RefFailed == Cardinality({j \in 1..Len(call.inputs) : RefReported(call.inputs[j]).error})

(* The status of a batch with fewer failures than the exit status has values
   is the number of failures. *)
StatusCountsFewFailures ==
    (call.pc = "exited" /\ RefFailed < 256) => call.status = RefFailed

(* C23: when main has returned, the exit status is 0 iff no conversion
   failed, and otherwise the number of failed conversions, or the largest
   exit status when there are more. *)
C23_StatusZeroIffNoFailure ==
    call.pc = "exited" =>
        /\ call.status = 0 <=> RefFailed = 0
        /\ call.status = IF RefFailed > 255 THEN 255 ELSE RefFailed

(* C23: a batch of 256 inputs that all failed has ended with exit status 0. *)
C23_AllFailedStatusZero ==
    /\ call.pc = "exited"
    /\ call.total_failure_count = 256
    /\ \A j \in 1..Len(prev.printed) : prev.printed[j].error
    /\ call.status = 0

-----------------------------------------------------------------------------
(* The options of the harness.  In this specification call holds main's
   position around process_program_options (pc "parsed", then "processed" or
   "failed", then "constructed") and the variables map vm: count is the set
   of the options that were given, and each option's field its value.  The
   options that change no field of the model's conversion_options_t (language,
   debug-output, use-scientific-notation) are left out. *)
OptionNames ==
    {"naming-system", "use-thousands-separator", "force-leading-zero",
     "thousands-separator-symbol", "decimal-separator-symbol"}

NamingSystemValues == {"short-scale", "SS", "long", "LS", "metric"}

SeparatorValues == {",", ".", "'", " "}

(* The variables maps: every choice of given options, one value per given
   option, the two switches given together or not at all. *)
VariablesMaps ==
    { [count |-> given, naming_system |-> n, use_thousands_separator |-> b,
       force_leading_zero |-> ~b, thousands_separator_symbol |-> t,
       decimal_separator_symbol |-> d] :
        given \in {g \in SUBSET OptionNames :
                      "use-thousands-separator" \in g <=> "force-leading-zero" \in g},
        n \in NamingSystemValues, b \in BOOLEAN,
        t \in SeparatorValues, d \in SeparatorValues }

(* The variables maps with no value for an option that was not given. *)
GivenVariablesMaps ==
    { vm \in VariablesMaps :
        /\ "naming-system" \in vm.count \/ vm.naming_system = "SS"
        /\ "use-thousands-separator" \in vm.count \/ vm.use_thousands_separator
        /\ "thousands-separator-symbol" \in vm.count \/ vm.thousands_separator_symbol = ","
        /\ "decimal-separator-symbol" \in vm.count \/ vm.decimal_separator_symbol = "." }

(* process_program_options without the comparison of the two separators. *)
process_program_options_unchecked(vm, conversion_options_in) ==
    LET Given(name) == name \in vm.count
        thousands == IF Given("thousands-separator-symbol")
                     THEN vm.thousands_separator_symbol
                     ELSE conversion_options_in.thousands_separator_symbol
        decimal == IF Given("decimal-separator-symbol") THEN vm.decimal_separator_symbol
                   ELSE IF Given("thousands-separator-symbol") /\ thousands = "." THEN ","
                   ELSE conversion_options_in.decimal_separator_symbol
    IN  [err |-> "",
         conversion_options |->
            [conversion_options_in EXCEPT !.thousands_separator_symbol = thousands,
                                          !.decimal_separator_symbol = decimal]]

(* process_program_options: [err, conversion_options].  The options are
   passed by reference: what was assigned before a throw stays assigned. *)
process_program_options(vm, conversion_options_in) ==
    LET Given(name) == name \in vm.count
        short == vm.naming_system \in {"short-scale", "short", "ss", "SS"}
        long == vm.naming_system \in {"long-scale", "long", "ls", "LS"}
        named == IF ~Given("naming-system") THEN conversion_options_in
                 ELSE IF short THEN [conversion_options_in EXCEPT !.naming_system = "short_scale"]
                 ELSE IF long THEN [conversion_options_in EXCEPT !.naming_system = "long_scale"]
                 ELSE conversion_options_in
        switched ==
            [named EXCEPT
               !.use_thousands_separators =
                   IF Given("use-thousands-separator") THEN vm.use_thousands_separator ELSE @,
               !.force_leading_zero =
                   IF Given("force-leading-zero") THEN vm.force_leading_zero ELSE @]
        thousands ==
            IF ~Given("thousands-separator-symbol") THEN switched
            ELSE [switched EXCEPT
                    !.thousands_separator_symbol = vm.thousands_separator_symbol,
                    !.decimal_separator_symbol =
                        IF vm.thousands_separator_symbol = "." THEN "," ELSE @]
        decimal ==
            IF ~Given("decimal-separator-symbol") THEN thousands
            ELSE [thousands EXCEPT !.decimal_separator_symbol = vm.decimal_separator_symbol]
    IN  IF Given("naming-system") /\ ~short /\ ~long
        THEN [err |-> "not_a_valid_number_naming_system", conversion_options |-> conversion_options_in]
        ELSE IF /\ Given("decimal-separator-symbol")
                /\ decimal.decimal_separator_symbol = decimal.thousands_separator_symbol
        THEN [err |-> "separators_have_to_be_different", conversion_options |-> decimal]
        ELSE [err |-> "", conversion_options |-> decimal]

(* main has parsed the command line; conversion_options is default-initialised
   and no converter exists yet. *)
InitOptions ==
    /\ conversion_options = DefaultOptions
    /\ number_patterns = <<>>
    /\ \E vm \in GivenVariablesMaps :
          call = [op |-> "main", pc |-> "parsed", vm |-> vm, err |-> ""]
    /\ prev = NoCall

(* process_program_options(vm, conversion_options) in main; main returns
   EXIT_FAILURE when it throws. *)
ProcessProgramOptions ==
    LET Processed(r) ==
            /\ conversion_options' = r.conversion_options
            /\ call' = [call EXCEPT !.pc = IF r.err = "" THEN "processed" ELSE "failed",
                                    !.err = r.err]
    IN  /\ call.pc = "parsed"
        /\ Processed(process_program_options(call.vm, conversion_options))
        /\ UNCHANGED <<number_patterns, prev>>

(* num::converter_c converter(conversion_options) in main. *)
ConstructConverter ==
    /\ call.pc = "processed"
    /\ number_patterns' = get_number_pattern_regex(conversion_options, <<>>).patterns
    /\ call' = [call EXCEPT !.pc = "constructed"]
    /\ UNCHANGED <<conversion_options, prev>>

NextOptions ==
    \/ ProcessProgramOptions
    \/ ConstructConverter

SpecOptions == InitOptions /\ [][NextOptions]_vars

(* C24: whichever of the two separator options are given,
   process_program_options fails or leaves the two separators different; and
   when '.' is given as thousands separator and no decimal separator is
   given, the decimal separator is ','. *)
C24_SeparatorsDiffer ==
    call.pc \in {"processed", "constructed"} =>
        /\ conversion_options.thousands_separator_symbol
              # conversion_options.decimal_separator_symbol
        /\ ( /\ "thousands-separator-symbol" \in call.vm.count
             /\ call.vm.thousands_separator_symbol = "."
             /\ "decimal-separator-symbol" \notin call.vm.count )
           => conversion_options.decimal_separator_symbol = ","

(* C24: only --thousands-separator-symbol . was given, and the converter is
   built with '.' and ','. *)
C24_PointImpliesComma ==
    /\ call.pc = "constructed"
    /\ call.vm.count = {"thousands-separator-symbol"}
    /\ call.vm.thousands_separator_symbol = "."
    /\ conversion_options.thousands_separator_symbol = "."
    /\ conversion_options.decimal_separator_symbol = ","

-----------------------------------------------------------------------------
(* Numbers in scientific notation: mantissas with and without integral and
   fractional digits, exponents on both sides of zero. *)
MaxMantissaDigits == 2

MaxShift == 4

ExponentExamples == { <<"1", "e", "3">>, <<"1", ".", "2", "3", "e", "6">>, <<"1", "e", "-", "3">>, <<"1", ",", "2", "3", "4", ".", "5", "e", "2">>, <<"1", "e", "2", "7">> }

ShiftInputs ==
    { m \o (IF e < 0 THEN <<"-">> ELSE <<>>) \o <<Digits[(IF e < 0 THEN 0 - e ELSE e) + 1]>> :
        m \in { s \o i \o f \o <<"e">> :
                  s \in SignPrefixes,
                  i \in Strings({"0", "1", "2"}, MaxMantissaDigits),
                  f \in {<<>>} \cup { <<".">> \o d :
                                        d \in Strings({"0", "3"}, MaxMantissaDigits) \ {<<>>} } },
        e \in (0 - MaxShift)..MaxShift }

InitShifts ==
    \E options \in { [DefaultOptions EXCEPT !.force_leading_zero = z] : z \in BOOLEAN } :
        Construct(options)

NextShifts ==
    \/ \E n \in ShiftInputs \cup ExponentExamples : ToNumeral(n)
    \/ Return

SpecShifts == InitShifts /\ [][NextShifts]_vars

(* The part of s before the first c (all of s when there is none) and the
   part after it. *)
RefBefore(s, c) ==
    LET at == {k \in 1..Len(s) : s[k] = c}
    IN  IF at = {} THEN s ELSE SubSeq(s, 1, Min(at) - 1)

RefAfter(s, c) ==
    LET at == {k \in 1..Len(s) : s[k] = c}
    IN  IF at = {} THEN <<>> ELSE SubSeq(s, Min(at) + 1, Len(s))

(* The written mantissa and exponent of a number string: the digits before
   and after the decimal point, without sign and thousands separators, and
   the exponent as an integer. *)
RefWritten(s) ==
    LET mantissa == RefWithout(RefWithout(RefBefore(s, "e"), "-"), ",")
        power == RefAfter(s, "e")
        size == DigitsValue(RefWithout(power, "-"))
    IN  [I |-> RefBefore(mantissa, "."),
         F |-> RefAfter(mantissa, "."),
         e |-> IF power # <<>> /\ power[1] = "-" THEN 0 - size ELSE size]

(* s without its leading and its trailing zeros. *)
RefSignificant(s) ==
    LET nz == {k \in 1..Len(s) : s[k] # "0"}
    IN  IF nz = {} THEN <<>> ELSE SubSeq(s, Min(nz), Max(nz))

(* s without its trailing zeros. *)
RefStripTrailingZeros(s) ==
    LET nz == {k \in 1..Len(s) : s[k] # "0"}
    IN  IF nz = {} THEN <<>> ELSE SubSeq(s, 1, Max(nz))

(* The decimal integral.fractional in its shortest writing. *)
RefShortest(integral, fractional) ==
    [i |-> StripLeadingZeros(integral), f |-> RefStripTrailingZeros(fractional)]

(* I.F * 10^e in its shortest writing: the digits of I and F between two
   runs of zeros long enough for the point to fall inside, and the point
   moved e places from the end of I. *)
RefTimesTenTo(I, F, e) ==
    LET room == (IF e < 0 THEN 0 - e ELSE e) + 1
        padded == Zeros(room) \o I \o F \o Zeros(room)
        point == room + Len(I) + e
    IN  RefShortest(SubSeq(padded, 1, point), SubSeq(padded, point + 1, Len(padded)))

(* C25: for an accepted number with exponent e # 0, the integral and
   fractional parts extract_number_parts returns denote the mantissa times
   10^e exactly, hold the mantissa's digits in order with only zeros added,
   and are not both empty. *)
C25_ExponentResolved ==
    LET Holds(parts, written) ==
            (parts.ok /\ written.e # 0) =>
                /\ parts.exponent = written.e
                /\ RefShortest(parts.integral_part, parts.fractional_part)
                      = RefTimesTenTo(written.I, written.F, written.e)
                /\ RefSignificant(parts.integral_part \o parts.fractional_part)
                      = RefSignificant(written.I \o written.F)
                /\ parts.integral_part # <<>> \/ parts.fractional_part # <<>>
    IN  (call.op = "to_numeral" /\ prev = NoCall) =>
            Holds(extract_number_parts(conversion_options, number_patterns, call.input),
                  RefWritten(call.input))

(* C25: to_numeral has read "1.23e6" as 1230000 and "-.3e-2" as -0.003. *)
C25_ShiftedBothWays ==
    /\ call.op = "to_numeral"
    /\ call.err = ""
    /\ \/ /\ call.input = <<"1", ".", "2", "3", "e", "6">>
          /\ extract_number_parts(conversion_options, number_patterns, call.input).integral_part
                = <<"1", "2", "3", "0", "0", "0", "0">>
       \/ /\ call.input = <<"-", ".", "3", "e", "-", "2">>
          /\ extract_number_parts(conversion_options, number_patterns, call.input).fractional_part
                = <<"0", "0", "3">>

-----------------------------------------------------------------------------
(* merge_places on its own.  In this specification call holds the two
   operands and, once the function has been applied, what it raised (err) and
   what it left in target (value); prev holds the earlier application when
   the same operands have been merged the other way round. *)
MaxPlaces == 3

PlaceStrings == Strings({"0", "1", "2"}, MaxPlaces)

InitMerge ==
    /\ conversion_options = DefaultOptions
    /\ number_patterns = get_number_pattern_regex(DefaultOptions, <<>>).patterns
    /\ \E source \in PlaceStrings, target \in PlaceStrings :
          call = [op |-> "operands", source |-> source, target |-> target,
                  err |-> "", value |-> <<>>]
    /\ prev = NoCall

Merged(source, target, r) ==
    [op |-> "merge_places", source |-> source, target |-> target,
     err |-> r.err, value |-> r.target]

(* merge_places(source, target) *)
MergePlaces ==
    /\ call.op = "operands"
    /\ call' = Merged(call.source, call.target, merge_places(call.source, call.target))
    /\ UNCHANGED <<conversion_options, number_patterns, prev>>

(* merge_places with the operands of the last application swapped. *)
MergePlacesSwapped ==
    /\ call.op = "merge_places"
    /\ prev = NoCall
    /\ call' = Merged(call.target, call.source, merge_places(call.target, call.source))
    /\ prev' = call
    /\ UNCHANGED <<conversion_options, number_patterns>>

NextMerge ==
    \/ MergePlaces
    \/ MergePlacesSwapped

SpecMerge == InitMerge /\ [][NextMerge]_vars

(* The digit of s at place j, counted from the right; "0" beyond its length. *)
RefPlace(s, j) == IF j <= Len(s) THEN s[Len(s) - j + 1] ELSE "0"

(* Some place holds a non-zero digit in both strings. *)
RefClash(a, b) ==
    \E j \in 1..Max({Len(a), Len(b)}) : RefPlace(a, j) # "0" /\ RefPlace(b, j) # "0"

(* C26: merge_places fails iff some right-aligned place holds a non-zero
   digit in both operands; otherwise target is as long as the longer operand,
   every place holds the non-zero digit of either operand or '0', the merged
   value is the sum of the two operands, and an empty target became source;
   with the operands swapped the call fails or succeeds alike and gives the
   same value. *)
C26_MergeIsPlacewiseSum ==
    LET source == call.source
        target == call.target
        merged == call.value
    IN  call.op = "merge_places" =>
            /\ call.err # "" <=> RefClash(source, target)
            /\ call.err = "" =>
                  /\ Len(merged) = Max({Len(source), Len(target)})
                  /\ \A j \in 1..Len(merged) :
                        RefPlace(merged, j) =
                            IF RefPlace(source, j) # "0" THEN RefPlace(source, j)
                            ELSE RefPlace(target, j)
                  /\ DigitsValue(merged) = DigitsValue(source) + DigitsValue(target)
                  /\ target = <<>> => merged = source
            /\ prev.op = "merge_places" =>
                  /\ (call.err = "") = (prev.err = "")
                  /\ call.err = "" => DigitsValue(call.value) = DigitsValue(prev.value)

(* C26: "20" was merged into "100" and then "100" into "20": both gave "120". *)
C26_MergedBothWays ==
    /\ call.op = "merge_places"
    /\ prev.op = "merge_places"
    /\ call.source = <<"1", "0", "0">>
    /\ call.target = <<"2", "0">>
    /\ call.err = ""
    /\ call.value = <<"1", "2", "0">>
    /\ prev.value = <<"1", "2", "0">>

-----------------------------------------------------------------------------
(* Latin magnitude words there and back: to_numeral on the powers of ten
   that need an -illion or -illiard word, and to_number on what it returned. *)
MaxPlace == 603

LatinInputs == { <<"1">> \o Zeros(place) : place \in {q \in 6..MaxPlace : q % 3 = 0} }

InitLatin ==
    \E naming_system \in NamingSystems :
        Construct([DefaultOptions EXCEPT !.naming_system = naming_system])

NextLatin ==
    \/ \E n \in LatinInputs : ToNumeral(n)
    \/ NumeralBack
    \/ Return

SpecLatin == InitLatin /\ [][NextLatin]_vars

(* The last word of a numeral. *)
RefLastWord(numeral) ==
    LET blanks == {k \in 1..Len(numeral) : numeral[k] = " "}
    IN  IF blanks = {} THEN numeral ELSE SubSeq(numeral, Max(blanks) + 1, Len(numeral))

(* to_number has been handed the numeral to_numeral returned for 10^place. *)
RefSpelledAndReadBack == call.op = "to_number" /\ prev.op = "to_numeral"

RefPlaceSpelled == Len(prev.input) - 1

(* The Latin factor of a place under the short and under the long scale. *)
RefFactorOf(place, naming_system) ==
    IF naming_system = "short_scale" THEN (place - 3) \div 3 ELSE place \div 6

(* The word of a place: root and suffix. *)
RefMagnitudeWord(place, naming_system) ==
    RefRoot(RefFactorOf(place, naming_system))
        \o (IF naming_system # "short_scale" /\ place % 6 = 3 THEN W_illiard ELSE W_illion)

(* The root of factor f is split by find_multiplicative_shift as it was
   composed: not at all when f is in the root table, and otherwise into
   the prefix of f mod 10 and the root of the tens. *)
RefSplitAsComposed(f) ==
    IF LeftFind(factor_to_root, f) # NotFound
    THEN RightFind(factor_to_root, RefRoot(f)) # 0
    ELSE /\ RightFind(factor_to_root, RefRoot(f)) = 0
         /\ find_prefix(RefRoot(f)) # 0
         /\ value_to_prefix_right[find_prefix(RefRoot(f))][1] = f % 10
         /\ value_to_prefix_right[find_prefix(RefRoot(f))][2] = LeftFind(value_to_prefix, f % 10)

(* C27: under the short and under the long scale, the word to_numeral emits
   for the group at place p is the root of the factor (or prefix and root)
   with "illion" or "illiard", find_multiplicative_shift resolves it to the
   shift p through the same split, and to_number reads the numeral back as
   10^p. *)
C27_LatinRoundTrip ==
    LET Holds(place, naming_system, word) ==
            /\ RefFactorOf(place, naming_system) \in 1..MaxFactor
            /\ word = RefMagnitudeWord(place, naming_system)
            /\ find_multiplicative_shift(word, conversion_options)
                  = [err |-> "", value |-> place]
            /\ RefSplitAsComposed(RefFactorOf(place, naming_system))
            /\ call.err = ""
            /\ RefWithout(call.value, ",") = prev.input
    IN  (RefSpelledAndReadBack /\ conversion_options.naming_system # "undefined") =>
            Holds(RefPlaceSpelled, conversion_options.naming_system, RefLastWord(prev.value))

(* C27: under the long scale 10^141 was spelled "one trevigintilliard" and
   read back as 1 followed by 141 zeros. *)
C27_Trevigintilliard ==
    /\ RefSpelledAndReadBack
    /\ conversion_options.naming_system = "long_scale"
    /\ prev.value = <<"o", "n", "e", " ", "t", "r", "e", "v", "i", "g", "i", "n", "t", "i", "l", "l", "i", "a", "r", "d">>
    /\ call.err = ""
    /\ RefWithout(call.value, ",") = <<"1">> \o Zeros(141)

(* C29: under every naming system, undefined included, the magnitude word
   to_numeral emits for the group at place p is accepted by to_number under
   the same options and given the shift p. *)
C29_SameScaleBothWays ==
    RefSpelledAndReadBack =>
        /\ find_multiplicative_shift(RefLastWord(prev.value), conversion_options)
              = [err |-> "", value |-> RefPlaceSpelled]
        /\ call.err = ""
        /\ RefWithout(call.value, ",") = prev.input

(* C29: under the undefined naming system 10^12 was spelled "one billion",
   the long scale word, and read back as 1,000,000,000, its short scale value. *)
C29_BillionSpelledLongReadShort ==
    /\ RefSpelledAndReadBack
    /\ conversion_options.naming_system = "undefined"
    /\ prev.input = <<"1">> \o Zeros(12)
    /\ prev.value = <<"o", "n", "e", " ", "b", "i", "l", "l", "i", "o", "n">>
    /\ call.err = ""
    /\ call.value = <<"1", ",", "0", "0", "0", ",", "0", "0", "0", ",", "0", "0", "0">>

-----------------------------------------------------------------------------
(* One converter whose separators are changed between calls: the cache of
   compiled number patterns. *)
MiddleDot == "0xB7"

CacheOptions ==
    { options \in
        { [DefaultOptions EXCEPT !.thousands_separator_symbol = t,
                                 !.decimal_separator_symbol = d] :
            t \in {",", "."}, d \in {".", ",", MiddleDot} } :
        options.thousands_separator_symbol # options.decimal_separator_symbol }

CacheInputs ==
    { <<"1">>, <<"1", ",", "0", "0", "0", ".", "5">>, <<"1", ".", "0", "0", "0", ",", "5">>,
      <<"1", ",", "0", "0", "0">> \o <<MiddleDot, "5">>, <<"1", ".", "0", "0", "0">> \o <<MiddleDot, "5">> }

InitCache == Construct(DefaultOptions)

(* converter.conversion_options().thousands_separator_symbol = ...; and the
   same for the decimal separator, between two calls. *)
ChangeSeparators(options) ==
    /\ Idle
    /\ options # conversion_options
    /\ conversion_options' = options
    /\ UNCHANGED <<number_patterns, call, prev>>

NextCache ==
    \/ \E options \in CacheOptions : ChangeSeparators(options)
    \/ \E input \in CacheInputs : IsNumber(input)
    \/ \E input \in CacheInputs : ToNumeral(input)
    \/ Return

SpecCache == InitCache /\ [][NextCache]_vars

(* The cache entry of the current separators, if there is one, was compiled
   from the current separators. *)
RefEntryIsOfCurrentPair ==
    LET key == pattern_key(conversion_options)
    IN  key \in DOMAIN number_patterns =>
            /\ number_patterns[key].thousands = conversion_options.thousands_separator_symbol
            /\ number_patterns[key].decimal = conversion_options.decimal_separator_symbol

(* What the last call returned is what a converter constructed with the
   current separators returns for the same input. *)
RefAnsweredForCurrentPair ==
    LET Same(r) ==
            /\ call.err = r.err
            /\ call.op = "is_number" => call.flag = r.value
            /\ call.op = "to_numeral" => call.value = r.value
    IN  /\ call.op = "is_number" =>
              Same(is_number(conversion_options, <<>>, call.input))
        /\ call.op = "to_numeral" =>
              Same(to_numeral(conversion_options, <<>>, call.input))

(* A compiled pattern stays in the cache as it is. *)
CachedPatternKept ==
    [][\A key \in DOMAIN number_patterns :
          key \in DOMAIN number_patterns' /\ number_patterns'[key] = number_patterns[key]]_vars

(* With separators whose codes are not negative, every call is answered
   for the current pair. *)
AsciiPairsAnswered ==
    (\A key \in DOMAIN number_patterns : number_patterns[key].decimal # MiddleDot) =>
        RefEntryIsOfCurrentPair /\ RefAnsweredForCurrentPair

(* C28: after any changes of the two separators between is_number and
   to_numeral calls, no cache entry is shared by two distinct separator
   pairs (the entry found for the current pair was compiled from the current
   pair), and each call is answered as the pattern of the current pair
   answers. *)
C28_PatternOfCurrentPair ==
    /\ RefEntryIsOfCurrentPair
    /\ RefAnsweredForCurrentPair

(* C28: with '.' and the byte 0xB7 as separators, is_number has refused
   "1.000" 0xB7 "5" because it found the pattern compiled earlier for ','
   and 0xB7 under the same key. *)
C28_AnsweredWithOtherPair ==
    /\ call.op = "is_number"
    /\ call.input = <<"1", ".", "0", "0", "0">> \o <<MiddleDot, "5">>
    /\ conversion_options.thousands_separator_symbol = "."
    /\ conversion_options.decimal_separator_symbol = MiddleDot
    /\ number_patterns[pattern_key(conversion_options)].thousands = ","
    /\ ~call.flag
    /\ is_number(conversion_options, <<>>, call.input).value

-----------------------------------------------------------------------------
(* What to_number returns, classified by is_number on the same converter. *)
InitAccepted == \E options \in SeparatedOptions : Construct(options)

(* The number a to_number call returned is handed to is_number. *)
NumberAsked ==
    LET Answered(r) ==
            /\ call' = [op |-> "is_number", input |-> call.value, err |-> r.err,
                        value |-> <<>>, flag |-> r.value]
            /\ number_patterns' = r.patterns
            /\ prev' = call
            /\ UNCHANGED conversion_options
    IN  /\ call.op = "to_number"
        /\ call.err = ""
        /\ prev = NoCall
        /\ Answered(is_number(conversion_options, number_patterns, call.value))

NextAccepted ==
    \/ \E numeral \in SeparatedInputs \cup PointInputs : ToNumber(numeral)
    \/ NumberAsked
    \/ Return

SpecAccepted == InitAccepted /\ [][NextAccepted]_vars

(* C30: every string to_number returns is accepted by is_number under the
   same options: with or without sign word, fractional part and numeric
   tokens, with use_thousands_separators on or off. *)
C30_ReturnedNumberAccepted ==
    (call.op = "is_number" /\ prev.op = "to_number") => (call.err = "" /\ call.flag)

(* C30: with '.' and ',' as separators "negative one thousand point one"
   became "-1.000,1", and is_number has accepted it. *)
C30_SignedSeparatedDecimalAccepted ==
    /\ call.op = "is_number"
    /\ prev.op = "to_number"
    /\ prev.input = <<"n", "e", "g", "a", "t", "i", "v", "e", " ", "o", "n", "e", " ", "t", "h", "o", "u", "s", "a", "n", "d", " ", "p", "o", "i", "n", "t", " ", "o", "n", "e">>
    /\ call.input = <<"-", "1", ".", "0", "0", "0", ",", "1">>
    /\ call.flag

=============================================================================
